---- MODULE Spec2Model ----
(***************************************************************************)
(* Model of the storage engine of mandala (mandala/_next/storage.py and    *)
(* mandala/_next/storage_utils.py): the write-through caches over the      *)
(* sqlite tables, Storage.commit and its transaction, save_ref/save_call,  *)
(* the call lookup of call_internal, drop_calls, cleanup_refs and preload. *)
(*                                                                         *)
(* Hashes are modelled as injective encodings (a hash collision is not a   *)
(* behaviour of interest): an id is the sequence of strings it is the hash *)
(* of.  Ops are called on an unversioned storage (deps_path is None), so   *)
(* the semantic version of every call is None and is left out of the ids;  *)
(* of a versioned storage only the scope entry and exit are modelled.      *)
(***************************************************************************)
EXTENDS Naturals, Sequences, FiniteSets, TLC

\* ------------------------------------------------------------------ bounds
MaxVal == 2          \* atom values are 1..MaxVal
MaxScopes == 2       \* storage scopes that may be open at once
BaseVal == 1         \* the value user code wraps outside any call
MaxChain == 2        \* calls in a chain, each on the output of the one before
MaxReq == 3          \* hids in one mget request
MaxVarArgs == 2      \* variadic positional arguments of one call site
MaxRows == 2         \* rows of one table handed to insert or upsert
MaxGraphCalls == 2   \* calls of a call table given as data

Vals == 1..MaxVal
NoObj == 0           \* the obj of a detached ref (None)
OpNames == {"f"}     \* the registered ops; each has one input "x", one output
\* two more ops, whose functions change their argument in place; "h" declares
\* allow_side_effects
MutatingOps == {"g", "h"}
allow_side_effects(op) == op = "h"
InputNames == <<"x">>
OutputNames == <<"output_0">>

\* -------------------------------------------------------- dict helpers
EmptyDict == <<>>
Put(d, k, v) == [x \in (DOMAIN d) \cup {k} |-> IF x = k THEN v ELSE d[x]]
Remove(d, k) == [x \in (DOMAIN d) \ {k} |-> d[x]]
RemoveAll(d, ks) == [x \in (DOMAIN d) \ ks |-> d[x]]
Range(d) == {d[x] : x \in DOMAIN d}

\* ------------------------------------------------ identity & serialization
\* utils.serialize / utils.deserialize: a deterministic codec and its inverse
serialize(v) == <<"ser", v>>
deserialize(b) == b[2]

\* utils.get_content_hash of an atom value
get_content_hash(v) == <<"cid", ToString(v)>>

\* Ref: an AtomRef with its cid, hid, in_memory flag and obj
AtomRef(cid, hid, in_memory, obj) ==
    [cid |-> cid, hid |-> hid, in_memory |-> in_memory, obj |-> obj]
\* AtomRef.detached(): same ids, no obj
detached(ref) == AtomRef(ref.cid, ref.hid, FALSE, NoObj)
\* AtomRef.attached(obj)
attached(ref, obj) == AtomRef(ref.cid, ref.hid, TRUE, obj)
\* wrap_atom(obj, history_id) with a given history id (an op output)
wrap_atom(obj, history_id) == AtomRef(get_content_hash(obj), history_id, TRUE, obj)

RECURSIVE JoinIds(_, _, _)
JoinIds(inputs, names, field) ==
    IF names = <<>> THEN <<>>
    ELSE <<Head(names)>> \o inputs[Head(names)][field]
            \o JoinIds(inputs, Tail(names), field)

\* Op.get_call_history_id: hash of (op id, sorted (slot, input hid))
get_call_history_id(op, inputs) == <<"call", op>> \o JoinIds(inputs, InputNames, "hid")
\* Op.get_call_content_id: hash of (op id, sorted (slot, input cid))
get_call_content_id(op, inputs) == <<"call", op>> \o JoinIds(inputs, InputNames, "cid")
\* Op.get_output_history_ids: hash of (call hid, output slot name)
get_output_history_id(call_hid, name) == call_hid \o <<name>>

\* the user function of an op: input value -> output value
f_user(op, v) == (v % MaxVal) + 1
\* the value of the argument object when the user function returns
f_mutates(op, v) == IF op \in MutatingOps THEN (v % MaxVal) + 1 ELSE v


NoRef == AtomRef(<<>>, <<>>, FALSE, NoObj)
NoCall == [op |-> "", cid |-> <<>>, hid |-> <<>>, inputs |-> <<>>, outputs |-> <<>>]

\* ------------------------------------------------------- SQLiteDictStorage
\* a table is a dict key -> serialized value
SQLiteDictStorage_set(table, key, value) == Put(table, key, serialize(value))
SQLiteDictStorage_get(table, key) == deserialize(table[key])
SQLiteDictStorage_drop(table, key) == Remove(table, key)
SQLiteDictStorage_exists(table, key) == key \in DOMAIN table
SQLiteDictStorage_load_all(table) == [k \in DOMAIN table |-> deserialize(table[k])]

\* ------------------------------------------------------- CachedDictStorage
\* c is [cache, dirty_keys, persistent]
CachedDictStorage_init == [cache |-> EmptyDict, dirty_keys |-> {}, persistent |-> EmptyDict]

CachedDictStorage_exists(c, key) ==
    \/ key \in DOMAIN c.cache
    \/ SQLiteDictStorage_exists(c.persistent, key)

\* get: the cached value, else read through and memoize; KeyError if absent
\* a get that answers None for a key that is nowhere, as dict.get does
CachedDictStorage_get_or_none(c, key) ==
    IF key \in DOMAIN c.cache
    THEN [ok |-> TRUE, value |-> c.cache[key], c |-> c]
    ELSE IF SQLiteDictStorage_exists(c.persistent, key)
    THEN [ok |-> TRUE, value |-> SQLiteDictStorage_get(c.persistent, key),
          c |-> [c EXCEPT !.cache = Put(@, key, SQLiteDictStorage_get(c.persistent, key))]]
    ELSE [ok |-> TRUE, value |-> NoObj, c |-> c]

CachedDictStorage_get(c, key) ==
    IF key \in DOMAIN c.cache
    THEN [ok |-> TRUE, value |-> c.cache[key], c |-> c]
    ELSE IF SQLiteDictStorage_exists(c.persistent, key)
    THEN [ok |-> TRUE, value |-> SQLiteDictStorage_get(c.persistent, key),
          c |-> [c EXCEPT !.cache = Put(@, key, SQLiteDictStorage_get(c.persistent, key))]]
    ELSE [ok |-> FALSE, value |-> NoObj, c |-> c]

\* a set that also writes the table: what "write-through on set" would be
CachedDictStorage_set_through(c, key, value) ==
    [c EXCEPT !.cache = Put(@, key, value), !.dirty_keys = @ \cup {key},
              !.persistent = SQLiteDictStorage_set(@, key, value)]

CachedDictStorage_set(c, key, value) ==
    [c EXCEPT !.cache = Put(@, key, value), !.dirty_keys = @ \cup {key}]

CachedDictStorage_drop(c, key) ==
    [cache |-> Remove(c.cache, key),
     dirty_keys |-> c.dirty_keys \ {key},
     persistent |-> SQLiteDictStorage_drop(c.persistent, key)]

RECURSIVE CachedDictStorage_drop_all(_, _)
CachedDictStorage_drop_all(c, keys) ==
    IF keys = {} THEN c
    ELSE LET k == CHOOSE x \in keys : TRUE
         IN CachedDictStorage_drop_all(CachedDictStorage_drop(c, k), keys \ {k})

\* ---------------------------------------------------------- call storages
\* the rows of one call in the calls table, grouped as mget_data groups them
CallData(call) ==
    [op_name |-> call.op, cid |-> call.cid, hid |-> call.hid,
     input_hids |-> [k \in DOMAIN call.inputs |-> call.inputs[k].hid],
     output_hids |-> [k \in DOMAIN call.outputs |-> call.outputs[k].hid],
     input_cids |-> [k \in DOMAIN call.inputs |-> call.inputs[k].cid],
     output_cids |-> [k \in DOMAIN call.outputs |-> call.outputs[k].cid]]

\* InMemCallStorage: df and call_hids, as a dict call hid -> rows
InMemCallStorage_save(df, call) ==
    IF call.hid \in DOMAIN df THEN df ELSE Put(df, call.hid, CallData(call))
InMemCallStorage_drop(df, hid) == Remove(df, hid)
InMemCallStorage_exists(df, hid) == hid \in DOMAIN df

\* SQLiteCallStorage
SQLiteCallStorage_exists(table, hid) == hid \in DOMAIN table
SQLiteCallStorage_drop(table, hid) == Remove(table, hid)

\* CachedCallStorage: c is [cache, dirty_hids, persistent]
CachedCallStorage_init == [cache |-> EmptyDict, dirty_hids |-> {}, persistent |-> EmptyDict]
CachedCallStorage_save(c, call) ==
    [c EXCEPT !.cache = InMemCallStorage_save(@, call), !.dirty_hids = @ \cup {call.hid}]
CachedCallStorage_exists(c, hid) ==
    \/ InMemCallStorage_exists(c.cache, hid)
    \/ SQLiteCallStorage_exists(c.persistent, hid)

\* CachedCallStorage.get_data(hid): [ok, data, c]: the rows of the cache when
\* the cache has the call.  Otherwise it calls persistent.get_data(hid, conn)
\* with conn as a positional argument: the transaction wrapper looks for conn
\* among the keywords only, opens a connection and passes it as conn=, and the
\* call raises TypeError (two values for conn).  The cache is left as it is.
CachedCallStorage_get_data(c, hid) ==
    IF InMemCallStorage_exists(c.cache, hid)
    THEN [ok |-> TRUE, data |-> c.cache[hid], c |-> c]
    ELSE [ok |-> FALSE, data |-> CallData(NoCall), c |-> c]

\* CachedCallStorage.drop(hid): [raised, c].  InMemCallStorage.drop raises
\* ValueError on a hid that is not in the cache; the persistent table is not
\* touched.
CachedCallStorage_drop(c, hid) ==
    IF ~InMemCallStorage_exists(c.cache, hid) THEN [raised |-> TRUE, c |-> c]
    ELSE [raised |-> FALSE,
          c |-> [c EXCEPT !.cache = InMemCallStorage_drop(@, hid),
                          !.dirty_hids = @ \ {hid}]]

\* ------------------------------------------------------------ refs interface
\* the storage s is [atoms, shapes, ops, calls]
\* a save_ref without the test `ref.hid in self.shapes`
save_ref_unguarded(s, ref) ==
    [s EXCEPT
       !.atoms = IF ref.in_memory
                 THEN CachedDictStorage_set(@, ref.cid, serialize(ref.obj))
                 ELSE @,
       !.shapes = CachedDictStorage_set(@, ref.hid, detached(ref))]

save_ref(s, ref) ==
    IF CachedDictStorage_exists(s.shapes, ref.hid) THEN s
    ELSE [s EXCEPT
            !.atoms = IF ref.in_memory
                      THEN CachedDictStorage_set(@, ref.cid, serialize(ref.obj))
                      ELSE @,
            !.shapes = CachedDictStorage_set(@, ref.hid, detached(ref))]

RECURSIVE save_refs(_, _)
save_refs(s, refs) ==
    IF refs = <<>> THEN s ELSE save_refs(save_ref(s, Head(refs)), Tail(refs))

\* load_ref(hid, lazy): [ok, ref, s]; reads memoize in the caches
load_ref(s, hid, lazy) ==
    LET g == CachedDictStorage_get(s.shapes, hid)
        s1 == [s EXCEPT !.shapes = g.c]
    IN IF ~g.ok THEN [ok |-> FALSE, ref |-> NoRef, s |-> s]
       ELSE IF lazy THEN [ok |-> TRUE, ref |-> g.value, s |-> s1]
       ELSE LET a == CachedDictStorage_get(s1.atoms, g.value.cid)
            IN IF ~a.ok THEN [ok |-> FALSE, ref |-> NoRef, s |-> s1]
               ELSE [ok |-> TRUE,
                     ref |-> attached(g.value, deserialize(a.value)),
                     s |-> [s1 EXCEPT !.atoms = a.c]]

\* the values of a dict in the order of its keys
RECURSIVE DictValues(_, _)
DictValues(d, names) ==
    IF names = <<>> THEN <<>>
    ELSE IF Head(names) \in DOMAIN d
         THEN <<d[Head(names)]>> \o DictValues(d, Tail(names))
         ELSE DictValues(d, Tail(names))

\* {k: load_ref(v, lazy) for k, v in hids.items()}: [ok, refs, s]
RECURSIVE load_refs(_, _, _, _)
load_refs(s, hids, names, lazy) ==
    IF names = <<>> THEN [ok |-> TRUE, refs |-> EmptyDict, s |-> s]
    ELSE LET r == load_ref(s, hids[Head(names)], lazy)
         IN IF ~r.ok THEN [ok |-> FALSE, refs |-> EmptyDict, s |-> r.s]
            ELSE LET rest == load_refs(r.s, hids, Tail(names), lazy)
                 IN [ok |-> rest.ok,
                     refs |-> IF rest.ok THEN Put(rest.refs, Head(names), r.ref)
                              ELSE EmptyDict,
                     s |-> rest.s]

\* unwrap of an atom ref: [ok, obj, s]
unwrap_atom(s, ref) ==
    IF ref.in_memory THEN [ok |-> TRUE, obj |-> ref.obj, s |-> s]
    ELSE LET r == load_ref(s, ref.hid, FALSE)
         IN [ok |-> r.ok, obj |-> r.ref.obj, s |-> r.s]

\* ListRef / DictRef over atom refs: obj is a sequence, or a dict, of refs;
\* the cid is derived from the structural tag and the children's cids
RECURSIVE JoinCids(_, _)
JoinCids(obj, keys) ==
    IF keys = <<>> THEN <<>>
    ELSE <<Head(keys)>> \o obj[Head(keys)].cid \o JoinCids(obj, Tail(keys))
\* the keys of a composite ref in the order its children are visited
Keys(tp, obj) ==
    IF tp = "list" THEN [i \in 1..Len(obj) |-> i]
    ELSE SelectSeq(InputNames \o OutputNames, LAMBDA k : k \in DOMAIN obj)
CompositeRef(tp, hid, obj) ==
    [cid |-> <<"cid", tp>> \o JoinCids(obj, Keys(tp, obj)), hid |-> hid,
     in_memory |-> TRUE, obj |-> obj, tp |-> tp]
\* ListRef.shape() / DictRef.shape(): the children replaced by detached refs
shape(ref) == [ref EXCEPT !.obj = [k \in DOMAIN ref.obj |-> detached(ref.obj[k])]]
\* ListRef.attached(obj) / DictRef.attached(obj)
attached_composite(ref, obj) == [ref EXCEPT !.in_memory = TRUE, !.obj = obj]

\* save_ref of a ListRef or a DictRef
save_composite_ref(s, ref) ==
    IF CachedDictStorage_exists(s.shapes, ref.hid) THEN s
    ELSE save_refs([s EXCEPT !.shapes = CachedDictStorage_set(@, ref.hid, shape(ref))],
                   [i \in 1..Len(Keys(ref.tp, ref.obj)) |-> ref.obj[Keys(ref.tp, ref.obj)[i]]])

\* load_ref(hid, lazy) when the shape is a ListRef or a DictRef: [ok, ref, s].
\* The list branch attaches shape.obj, the dict branch the loaded children.
load_composite_ref(s, hid, lazy) ==
    LET g == CachedDictStorage_get(s.shapes, hid)
        s1 == [s EXCEPT !.shapes = g.c]
    IN IF ~g.ok THEN [ok |-> FALSE, ref |-> NoRef, s |-> s]
       ELSE LET sh == g.value
                l == load_refs(s1, [k \in DOMAIN sh.obj |-> sh.obj[k].hid],
                               Keys(sh.tp, sh.obj), lazy)
            IN IF ~l.ok THEN [ok |-> FALSE, ref |-> NoRef, s |-> l.s]
               ELSE [ok |-> TRUE,
                     ref |-> attached_composite(sh, IF sh.tp = "list" THEN sh.obj
                                                    ELSE l.refs),
                     s |-> l.s]

\* unwrap of a ListRef or a DictRef of atoms: [ok, obj]
unwrap_composite(s, ref) ==
    [ok |-> \A k \in DOMAIN ref.obj : unwrap_atom(s, ref.obj[k]).ok,
     obj |-> [k \in DOMAIN ref.obj |-> unwrap_atom(s, ref.obj[k]).obj]]

\* ----------------------------------------------------------- calls interface
\* Storage.exists_call(hid)
exists_call(s, hid) == CachedCallStorage_exists(s.calls, hid)

\* a save_call without the test `self.calls.exists(call.hid)`
save_call_unguarded(s, call) ==
    LET s1 == IF CachedDictStorage_exists(s.ops, call.op) THEN s
              ELSE [s EXCEPT !.ops = CachedDictStorage_set(@, call.op, [name |-> call.op])]
        io_refs == DictValues(call.inputs, InputNames)
                       \o DictValues(call.outputs, OutputNames)
        s2 == save_refs(s1, io_refs)
    IN [s2 EXCEPT !.calls = CachedCallStorage_save(@, call)]

save_call(s, call) ==
    IF CachedCallStorage_exists(s.calls, call.hid) THEN s
    ELSE LET s1 == IF CachedDictStorage_exists(s.ops, call.op) THEN s
                   ELSE [s EXCEPT !.ops = CachedDictStorage_set(@, call.op, [name |-> call.op])]
             io_refs == DictValues(call.inputs, InputNames)
                            \o DictValues(call.outputs, OutputNames)
             s2 == save_refs(s1, io_refs)
         IN [s2 EXCEPT !.calls = CachedCallStorage_save(@, call)]

\* _get_call_from_data(call_data, lazy): [ok, call, s]
get_call_from_data(s, call_data, lazy) ==
    LET o == CachedDictStorage_get(s.ops, call_data.op_name)
        s1 == [s EXCEPT !.ops = o.c]
    IN IF ~o.ok THEN [ok |-> FALSE, call |-> NoCall, s |-> s]
       ELSE LET i == load_refs(s1, call_data.input_hids, InputNames, lazy)
            IN IF ~i.ok THEN [ok |-> FALSE, call |-> NoCall, s |-> i.s]
               ELSE LET u == load_refs(i.s, call_data.output_hids, OutputNames, lazy)
                    IN IF ~u.ok THEN [ok |-> FALSE, call |-> NoCall, s |-> u.s]
                       ELSE [ok |-> TRUE,
                             call |-> [op |-> o.value.name, cid |-> call_data.cid,
                                       hid |-> call_data.hid,
                                       inputs |-> i.refs, outputs |-> u.refs],
                             s |-> u.s]


\* the rows of a call in the calls table: (call_history_id, name, direction,
\* call_content_id, ref_content_id, ref_history_id, op)
CallRows(d) ==
    {<<d.hid, n, "in", d.cid, d.input_cids[n], d.input_hids[n], d.op_name>> :
        n \in DOMAIN d.input_hids}
    \cup {<<d.hid, n, "out", d.cid, d.output_cids[n], d.output_hids[n], d.op_name>> :
        n \in DOMAIN d.output_hids}
TableRows(table) == UNION {CallRows(table[h]) : h \in DOMAIN table}

\* the record mget_data builds from the rows of one call hid
GroupRows(rows, hid) ==
    LET mine == {r \in rows : r[1] = hid}
        ins == {r \in mine : r[3] = "in"}
        outs == mine \ ins
        first == CHOOSE r \in mine : TRUE
    IN [op_name |-> first[7], cid |-> first[4], hid |-> hid,
        input_hids |-> [n \in {r[2] : r \in ins} |-> (CHOOSE r \in ins : r[2] = n)[6]],
        output_hids |-> [n \in {r[2] : r \in outs} |-> (CHOOSE r \in outs : r[2] = n)[6]],
        input_cids |-> [n \in {r[2] : r \in ins} |-> (CHOOSE r \in ins : r[2] = n)[5]],
        output_cids |-> [n \in {r[2] : r \in outs} |-> (CHOOSE r \in outs : r[2] = n)[5]]]

\* mget_data(call_hids) of InMemCallStorage and of SQLiteCallStorage, over
\* the rows of a dataframe or a table: [ok, datas]; a hid without rows is a
\* KeyError
mget_data(table, call_hids) ==
    IF \E i \in 1..Len(call_hids) : call_hids[i] \notin DOMAIN table
    THEN [ok |-> FALSE, datas |-> <<>>]
    ELSE [ok |-> TRUE,
          datas |-> [i \in 1..Len(call_hids) |-> GroupRows(TableRows(table), call_hids[i])]]

\* split_list / merge_lists of Storage.mget_call
RECURSIVE split_list(_, _, _)
split_list(lst, mask, keep) ==
    IF lst = <<>> THEN <<>>
    ELSE (IF Head(mask) = keep THEN <<Head(lst)>> ELSE <<>>)
            \o split_list(Tail(lst), Tail(mask), keep)
RECURSIVE merge_lists(_, _, _)
merge_lists(list_true, list_false, mask) ==
    IF mask = <<>> THEN <<>>
    ELSE IF Head(mask)
         THEN <<Head(list_true)>> \o merge_lists(Tail(list_true), list_false, Tail(mask))
         ELSE <<Head(list_false)>> \o merge_lists(list_true, Tail(list_false), Tail(mask))

\* the loop of _get_call_from_data over the call datas: [ok, calls, s]
RECURSIVE get_calls_from_datas(_, _, _)
get_calls_from_datas(s, datas, lazy) ==
    IF datas = <<>> THEN [ok |-> TRUE, calls |-> <<>>, s |-> s]
    ELSE LET c == get_call_from_data(s, Head(datas), lazy)
         IN IF ~c.ok THEN [ok |-> FALSE, calls |-> <<>>, s |-> c.s]
            ELSE LET rest == get_calls_from_datas(c.s, Tail(datas), lazy)
                 IN [ok |-> rest.ok,
                     calls |-> IF rest.ok THEN <<c.call>> \o rest.calls ELSE <<>>,
                     s |-> rest.s]

\* Storage.mget_call(hids, lazy): [ok, calls, s]
mget_call(s, hids, lazy) ==
    LET mask == [i \in 1..Len(hids) |-> InMemCallStorage_exists(s.calls.cache, hids[i])]
        cache_datas == mget_data(s.calls.cache, split_list(hids, mask, TRUE))
        db_datas == mget_data(s.calls.persistent, split_list(hids, mask, FALSE))
    IN IF ~cache_datas.ok \/ ~db_datas.ok THEN [ok |-> FALSE, calls |-> <<>>, s |-> s]
       ELSE get_calls_from_datas(s, merge_lists(cache_datas.datas, db_datas.datas, mask),
                                 lazy)

\* InMemCallStorage.exists_content / get_data_content: the cached calls with
\* a given content id
exists_content(df, cid) == \E h \in DOMAIN df : df[h].cid = cid
get_data_content(df, cid) == {df[h] : h \in {x \in DOMAIN df : df[x].cid = cid}}

\* the prototypes lookup_call may be handed by get_data_content
Prototypes(s, op, inputs) ==
    IF exists_content(s.calls.cache, get_call_content_id(op, inputs))
    THEN get_data_content(s.calls.cache, get_call_content_id(op, inputs))
    ELSE {CallData(NoCall)}

\* lookup_call, hit by history id: the cached call, [err, found, call, s]
lookup_by_hid(r) == [err |-> ~r.ok, found |-> r.ok, call |-> r.call, s |-> r.s]

\* lookup_call, hit by content id: the prototype r.call with its hid and the
\* hids of its outputs rewritten to those derived from call_hid
lookup_by_cid(r, call_hid) ==
    [err |-> ~r.ok, found |-> r.ok,
     call |-> IF r.ok
              THEN [r.call EXCEPT
                      !.hid = call_hid,
                      !.outputs = [k \in DOMAIN r.call.outputs |->
                          [r.call.outputs[k] EXCEPT
                             !.hid = get_output_history_id(call_hid, k)]]]
              ELSE NoCall,
     s |-> r.s]

\* lookup_call(op, inputs) on an unversioned storage: [err, found, call, s]
\* proto is the row group get_data_content returns
lookup_call(s, op, inputs, proto) ==
    LET call_hid == get_call_history_id(op, inputs)
        call_cid == get_call_content_id(op, inputs)
    IN IF InMemCallStorage_exists(s.calls.cache, call_hid)
       THEN lookup_by_hid(get_call_from_data(s, s.calls.cache[call_hid], TRUE))
       ELSE IF exists_content(s.calls.cache, call_cid)
       THEN lookup_by_cid(get_call_from_data(s, proto, TRUE), call_hid)
       ELSE [err |-> FALSE, found |-> FALSE, call |-> NoCall, s |-> s]

\* ------------------------------------------------------------ parse_args
\* an argument of a call site: a raw value, a ref, Ignore(value), or nothing
\* for a parameter that is left out
Raw(v) == [kind |-> "raw", val |-> v, ref |-> NoRef]
RefArg(ref) == [kind |-> "ref", val |-> NoObj, ref |-> ref]
Ignore(v) == [kind |-> "ignore", val |-> v, ref |-> NoRef]
Omitted == [kind |-> "omitted", val |-> NoObj, ref |-> NoRef]

\* the value of the declared default NewArgDefault(v) of the parameter y
NewArgDefaultValue == BaseVal

\* parse_args for the parameter y of f(x, y=NewArgDefault(v)):
\* [raised, bound, included, s].  bound is what bound_arguments forwards to
\* the function, included whether storage_inputs has the slot.  A parameter
\* left out is bound by apply_defaults to the marker, which is an _Ignore.
parse_new_arg(s, y) ==
    IF y.kind = "omitted"
    THEN [raised |-> FALSE, bound |-> Raw(NewArgDefaultValue), included |-> FALSE, s |-> s]
    ELSE IF y.kind = "ignore"
    THEN [raised |-> FALSE, bound |-> Raw(y.val), included |-> FALSE, s |-> s]
    ELSE IF y.kind = "ref"
    THEN LET u == unwrap_atom(s, y.ref)
         IN IF ~u.ok THEN [raised |-> TRUE, bound |-> y, included |-> FALSE, s |-> u.s]
            ELSE IF u.obj = NewArgDefaultValue
            THEN [raised |-> FALSE, bound |-> Raw(NewArgDefaultValue),
                  included |-> FALSE, s |-> u.s]
            ELSE [raised |-> FALSE, bound |-> y, included |-> TRUE, s |-> u.s]
    ELSE IF y.val = NewArgDefaultValue
    THEN [raised |-> FALSE, bound |-> Raw(NewArgDefaultValue), included |-> FALSE, s |-> s]
    ELSE [raised |-> FALSE, bound |-> y, included |-> TRUE, s |-> s]

\* parse_args for a regular parameter (no default): [bound, included]
parse_regular_arg(a) ==
    IF a.kind = "ignore" THEN [bound |-> Raw(a.val), included |-> FALSE]
    ELSE [bound |-> a, included |-> TRUE]

\* parse_args(sig of f(x, y=NewArgDefault(v)), (x, y)):
\* [raised, bound_arguments, storage_inputs, s]
parse_args(s, x, y) ==
    LET px == parse_regular_arg(x)
        py == parse_new_arg(s, y)
    IN [raised |-> py.raised,
        bound_arguments |-> [x |-> px.bound, y |-> py.bound],
        storage_inputs |-> [k \in (IF px.included THEN {"x"} ELSE {})
                                    \cup (IF py.included THEN {"y"} ELSE {}) |->
                              IF k = "x" THEN x ELSE y],
        s |-> py.s]

\* what bound_arguments forwards for an argument: the value of an Ignore
unwrap_ignore(a) == IF a.kind = "ignore" THEN Raw(a.val) ELSE a

\* the slot of the i-th variadic positional argument of *args: args_0, ...
VarSlot(i) == "args_" \o ToString(i - 1)

\* a parse of the variadic positional arguments that stores the ignored ones
parse_var_positional_unmasked(v) ==
    [bound |-> [i \in 1..Len(v) |-> unwrap_ignore(v[i])],
     storage |-> [n \in {VarSlot(i) : i \in 1..Len(v)} |->
                    unwrap_ignore(v[CHOOSE i \in 1..Len(v) : VarSlot(i) = n])]]

\* parse_args, variadic positional parameter *args: [bound, storage]
parse_var_positional(v) ==
    [bound |-> [i \in 1..Len(v) |-> unwrap_ignore(v[i])],
     storage |-> [n \in {VarSlot(i) : i \in {j \in 1..Len(v) : v[j].kind # "ignore"}} |->
                    v[CHOOSE i \in 1..Len(v) : VarSlot(i) = n]]]

\* parse_args, variadic keyword parameter **kwargs: [bound, storage]
parse_var_keyword(kw) ==
    [bound |-> [k \in DOMAIN kw |-> unwrap_ignore(kw[k])],
     storage |-> [k \in {n \in DOMAIN kw : kw[n].kind # "ignore"} |-> kw[k]]]

\* parse_args(sig of f(x, *args, z, **kwargs), site), the site giving x
\* positionally and z by keyword: [bound_arguments, storage_inputs]
parse_site(site) ==
    LET px == parse_regular_arg(site.x)
        pz == parse_regular_arg(site.z)
        pa == parse_var_positional(site.args)
        pk == parse_var_keyword(site.kwargs)
    IN [bound_arguments |-> [x |-> px.bound, z |-> pz.bound,
                             args |-> pa.bound, kwargs |-> pk.bound],
        storage_inputs |->
            [n \in (IF px.included THEN {"x"} ELSE {})
                      \cup (IF pz.included THEN {"z"} ELSE {})
                      \cup (DOMAIN pa.storage) \cup (DOMAIN pk.storage) |->
               IF n = "x" THEN site.x
               ELSE IF n = "z" THEN site.z
               ELSE IF n \in DOMAIN pa.storage THEN pa.storage[n]
               ELSE pk.storage[n]]]

\* the slots of f(x, *args, z, **kwargs) in sorted order
SortedSlots == [i \in 1..MaxVarArgs |-> VarSlot(i)] \o <<"k", "x", "z">>
RECURSIVE JoinSlots(_, _)
JoinSlots(inputs, names) ==
    IF names = <<>> THEN <<>>
    ELSE (IF Head(names) \in DOMAIN inputs
          THEN <<Head(names)>> \o inputs[Head(names)].ref.hid ELSE <<>>)
            \o JoinSlots(inputs, Tail(names))
\* Op.get_call_history_id of the storage inputs of a call site
site_call_history_id(op, storage_inputs) ==
    <<"call", op>> \o JoinSlots(storage_inputs, SortedSlots)

\* what the guard of call_internal fingerprints after the user function ran.
\* raw_values and the arguments are two unwraps of the same input: the obj of
\* an in-memory ref both times, two separate load_ref copies of a detached one
raw_value_after(op, ref, obj) == IF ref.in_memory THEN f_mutates(op, obj) ELSE obj

\* the side effect guard of call_internal: cids_before # cids_after
side_effect(op, ref, obj) ==
    /\ ~allow_side_effects(op)
    /\ get_content_hash(raw_value_after(op, ref, obj)) # ref.cid

\* call_internal after a lookup that found nothing: u is the unwrapped input;
\* run the user function, check the input was not mutated, wrap the output
call_execute(op, inputs, u) ==
    IF ~u.ok
    THEN [raised |-> TRUE, executed |-> FALSE, call |-> NoCall, s |-> u.s]
    ELSE IF side_effect(op, inputs.x, u.obj)
    THEN [raised |-> TRUE, executed |-> TRUE, call |-> NoCall, s |-> u.s]
    ELSE LET call_hid == get_call_history_id(op, inputs)
             out == wrap_atom(f_user(op, u.obj),
                              get_output_history_id(call_hid, "output_0"))
         IN [raised |-> FALSE, executed |-> TRUE,
             call |-> [op |-> op,
                       cid |-> get_call_content_id(op, inputs),
                       hid |-> call_hid,
                       inputs |-> [x |-> IF inputs.x.in_memory
                                         THEN [inputs.x EXCEPT
                                                 !.obj = f_mutates(op, u.obj)]
                                         ELSE inputs.x],
                       outputs |-> [output_0 |-> out]],
             s |-> u.s]

\* call_internal once lookup_call has returned l
call_after_lookup(op, inputs, l) ==
    IF l.err THEN [raised |-> TRUE, executed |-> FALSE, call |-> NoCall, s |-> l.s]
    ELSE IF l.found
    THEN [raised |-> FALSE, executed |-> FALSE, call |-> l.call, s |-> l.s]
    ELSE call_execute(op, inputs, unwrap_atom(l.s, inputs.x))

\* call_internal for a non-structural op with atom inputs and one atom
\* output: [raised, executed, call, s]
call_internal(s, op, inputs, proto) ==
    call_after_lookup(op, inputs, lookup_call(s, op, inputs, proto))

\* Storage.call: save_call of the main call when save_calls is set
call_save(r, save_calls) ==
    IF r.raised \/ ~save_calls THEN r
    ELSE [r EXCEPT !.s = save_call(r.s, r.call)]

\* Storage.call(op, (x,), save_calls): [raised, executed, call, s]
Storage_call(s, op, x, save_calls, proto) ==
    call_save(call_internal(s, op, [x |-> x], proto), save_calls)

\* ------------------------------------------------------ provenance queries
get_consumer_hids(df, ref_hids) ==
    {h \in DOMAIN df : \E k \in DOMAIN df[h].input_hids : df[h].input_hids[k] \in ref_hids}
get_output_hids(df, call_hids) ==
    UNION {Range(df[h].output_hids) : h \in call_hids \cap DOMAIN df}

\* the loop of InMemCallStorage.get_dependents, which SQLiteCallStorage
\* runs over the rows of the persistent table
RECURSIVE get_dependents_loop(_, _, _, _, _)
get_dependents_loop(df, refs_result, calls_result, cur_refs, cur_calls) ==
    LET calls_upd == get_consumer_hids(df, cur_refs) \ calls_result
        refs_upd == get_output_hids(df, cur_calls) \ refs_result
    IN IF calls_upd = {} /\ refs_upd = {}
       THEN <<refs_result, calls_result>>
       ELSE get_dependents_loop(df, refs_result \cup refs_upd,
                                calls_result \cup calls_upd, refs_upd, calls_upd)

\* a get_dependents loop that stops as soon as one of the two updates is empty
RECURSIVE get_dependents_loop_either(_, _, _, _, _)
get_dependents_loop_either(df, refs_result, calls_result, cur_refs, cur_calls) ==
    LET calls_upd == get_consumer_hids(df, cur_refs) \ calls_result
        refs_upd == get_output_hids(df, cur_calls) \ refs_result
    IN IF calls_upd = {} \/ refs_upd = {}
       THEN <<refs_result, calls_result>>
       ELSE get_dependents_loop_either(df, refs_result \cup refs_upd,
                                       calls_result \cup calls_upd, refs_upd, calls_upd)

get_dependents_either(df, ref_hids, call_hids) ==
    get_dependents_loop_either(df, ref_hids, call_hids, ref_hids, call_hids)

get_dependents(df, ref_hids, call_hids) ==
    get_dependents_loop(df, ref_hids, call_hids, ref_hids, call_hids)

\* the passes the loop of get_dependents makes, the one that breaks included
RECURSIVE get_dependents_passes(_, _, _, _, _)
get_dependents_passes(df, refs_result, calls_result, cur_refs, cur_calls) ==
    LET calls_upd == get_consumer_hids(df, cur_refs) \ calls_result
        refs_upd == get_output_hids(df, cur_calls) \ refs_result
    IN IF calls_upd = {} /\ refs_upd = {} THEN 1
       ELSE 1 + get_dependents_passes(df, refs_result \cup refs_upd,
                                      calls_result \cup calls_upd, refs_upd, calls_upd)

\* a loop that makes one more pass after the pass that found nothing new
get_dependents_iterations_again(df, ref_hids, call_hids) ==
    1 + get_dependents_passes(df, ref_hids, call_hids, ref_hids, call_hids)

\* the iterations of `while True` in get_dependents(ref_hids, call_hids)
get_dependents_iterations(df, ref_hids, call_hids) ==
    get_dependents_passes(df, ref_hids, call_hids, ref_hids, call_hids)

get_creator_hids(df, ref_hids) ==
    {h \in DOMAIN df : \E k \in DOMAIN df[h].output_hids : df[h].output_hids[k] \in ref_hids}
get_input_hids(df, call_hids) ==
    UNION {Range(df[h].input_hids) : h \in call_hids \cap DOMAIN df}

\* the loop of InMemCallStorage.get_dependencies
RECURSIVE get_dependencies_loop(_, _, _, _, _)
get_dependencies_loop(df, refs_result, calls_result, cur_refs, cur_calls) ==
    LET calls_upd == get_creator_hids(df, cur_refs) \ calls_result
        refs_upd == get_input_hids(df, cur_calls) \ refs_result
    IN IF calls_upd = {} /\ refs_upd = {}
       THEN <<refs_result, calls_result>>
       ELSE get_dependencies_loop(df, refs_result \cup refs_upd,
                                  calls_result \cup calls_upd, refs_upd, calls_upd)

get_dependencies(df, ref_hids, call_hids) ==
    get_dependencies_loop(df, ref_hids, call_hids, ref_hids, call_hids)

\* the passes the loop of get_dependencies makes, the one that breaks included
RECURSIVE get_dependencies_passes(_, _, _, _, _)
get_dependencies_passes(df, refs_result, calls_result, cur_refs, cur_calls) ==
    LET calls_upd == get_creator_hids(df, cur_refs) \ calls_result
        refs_upd == get_input_hids(df, cur_calls) \ refs_result
    IN IF calls_upd = {} /\ refs_upd = {} THEN 1
       ELSE 1 + get_dependencies_passes(df, refs_result \cup refs_upd,
                                        calls_result \cup calls_upd, refs_upd, calls_upd)

\* the iterations of `while True` in get_dependencies(ref_hids, call_hids)
get_dependencies_iterations(df, ref_hids, call_hids) ==
    get_dependencies_passes(df, ref_hids, call_hids, ref_hids, call_hids)

\* Storage.drop_calls(hids, delete_dependents)
drop_calls(s, hids0, delete_dependents) ==
    LET hids == IF delete_dependents
                THEN hids0 \cup get_dependents(s.calls.persistent, {}, hids0)[2]
                ELSE hids0
    IN [s EXCEPT !.calls = [cache |-> RemoveAll(s.calls.cache, hids),
                            dirty_hids |-> s.calls.dirty_hids,
                            persistent |-> RemoveAll(s.calls.persistent, hids)]]

\* ref hids / ref cids appearing in the rows of the persistent calls table
hids_in_calls(table) ==
    UNION {Range(table[h].input_hids) \cup Range(table[h].output_hids) : h \in DOMAIN table}
cids_in_calls(table) ==
    UNION {Range(table[h].input_cids) \cup Range(table[h].output_cids) : h \in DOMAIN table}

get_orphans(s) == (DOMAIN s.shapes.persistent) \ hids_in_calls(s.calls.persistent)
get_unreferenced_cids(s) ==
    ((DOMAIN s.atoms.persistent) \ cids_in_calls(s.calls.persistent))
        \ {deserialize(b).cid : b \in Range(s.shapes.persistent)}

\* a cleanup_refs that looks for the unreferenced cids before it drops the
\* orphans
cleanup_refs_cids_first(s) ==
    LET s1 == [s EXCEPT !.shapes = CachedDictStorage_drop_all(@, get_orphans(s))]
    IN [s1 EXCEPT !.atoms = CachedDictStorage_drop_all(@, get_unreferenced_cids(s))]

\* Storage.cleanup_refs outside a context
cleanup_refs(s) ==
    LET s1 == [s EXCEPT !.shapes = CachedDictStorage_drop_all(@, get_orphans(s))]
    IN [s1 EXCEPT !.atoms = CachedDictStorage_drop_all(@, get_unreferenced_cids(s1))]

\* Storage.preload(lazy)
preload(s, lazy) ==
    [s EXCEPT !.calls.cache = s.calls.persistent,
              !.shapes.cache = SQLiteDictStorage_load_all(s.shapes.persistent),
              !.ops.cache = SQLiteDictStorage_load_all(s.ops.persistent),
              !.atoms.cache = IF lazy THEN @
                              ELSE SQLiteDictStorage_load_all(s.atoms.persistent)]


\* ------------------------------------------------------------------ commit
Phases == <<"atoms", "shapes", "ops", "calls">>
Faults == {"none", "atoms", "shapes", "ops", "calls"}

\* dirty keys whose persistent.set / persistent.save can be executed
DictGood(c) == c.dirty_keys \cap DOMAIN c.cache
CallGood(c) == {h \in c.dirty_hids : h \in DOMAIN c.cache /\ h \notin DOMAIN c.persistent}

\* CachedDictStorage.commit(conn): [raised, c].  It raises on a dirty key
\* missing from the cache (KeyError) or when the relational store fails a
\* statement (fail); `written` are the keys set before the failing one, in
\* the iteration order of the dirty set.
CachedDictStorage_commit(c, fail, written) ==
    IF c.dirty_keys \subseteq DOMAIN c.cache /\ ~(fail /\ c.dirty_keys # {})
    THEN [raised |-> FALSE,
          c |-> [c EXCEPT
                   !.persistent = [k \in (DOMAIN @) \cup c.dirty_keys |->
                                     IF k \in c.dirty_keys THEN serialize(c.cache[k])
                                     ELSE @[k]],
                   !.dirty_keys = {}]]
    ELSE [raised |-> TRUE,
          c |-> [c EXCEPT
                   !.persistent = [k \in (DOMAIN @) \cup (written \cap DictGood(c)) |->
                                     IF k \in written \cap DictGood(c)
                                     THEN serialize(c.cache[k]) ELSE @[k]]]]

\* CachedCallStorage.commit(conn): [raised, c].  InMemCallStorage.get_data
\* raises on a dirty hid missing from the cache, and the INSERT of
\* SQLiteCallStorage.save on a primary key already in the table.
CachedCallStorage_commit(c, fail, written) ==
    IF CallGood(c) = c.dirty_hids /\ ~(fail /\ c.dirty_hids # {})
    THEN [raised |-> FALSE,
          c |-> [c EXCEPT
                   !.persistent = [h \in (DOMAIN @) \cup c.dirty_hids |->
                                     IF h \in c.dirty_hids THEN c.cache[h] ELSE @[h]],
                   !.dirty_hids = {}]]
    ELSE [raised |-> TRUE,
          c |-> [c EXCEPT
                   !.persistent = [h \in (DOMAIN @) \cup (written \cap CallGood(c)) |->
                                     IF h \in written \cap CallGood(c)
                                     THEN c.cache[h] ELSE @[h]]]]

\* what the connection's rollback leaves in the tables: a file database
\* (sqlite3.connect(path), implicit transactions) goes back to `before`; the
\* in-memory connection is opened with isolation_level=None (autocommit), so
\* every executed statement stays.
rollback(in_memory, before, now) ==
    IF in_memory THEN now
    ELSE [now EXCEPT !.atoms.persistent = before.atoms.persistent,
                     !.shapes.persistent = before.shapes.persistent,
                     !.ops.persistent = before.ops.persistent,
                     !.calls.persistent = before.calls.persistent]

\* conn.rollback() on one table: a file connection goes back to `before`; the
\* in-memory connection (isolation_level=None) has executed every statement
\* in autocommit and keeps `now`
conn_rollback(in_memory, before, now) == IF in_memory THEN now ELSE before

\* the transaction wrapper around a method called without a connection, which
\* left the table as `now` when it returned or raised: [raised, table, closed]
transaction(in_memory, before, now, raised) ==
    [raised |-> raised,
     table |-> IF raised THEN conn_rollback(in_memory, before, now) ELSE now,
     closed |-> ~in_memory]

\* the transaction wrapper around a method called with the connection of an
\* outer transaction: no commit, no rollback, no close
transaction_folded(now, raised) ==
    [raised |-> raised, table |-> now, closed |-> FALSE]

\* the INSERT statements of SQLiteCallStorage.save: the input rows, then the
\* output rows, one statement per row
NumRows == Len(InputNames) + Len(OutputNames)
\* the rows of `data` after its first k INSERTs
FirstRows(data, k) ==
    LET ins == {InputNames[i] : i \in 1..(IF k < Len(InputNames) THEN k ELSE Len(InputNames))}
        outs == {OutputNames[i] : i \in 1..(k - Len(InputNames))}
    IN [data EXCEPT !.input_hids = [n \in ins |-> data.input_hids[n]],
                    !.input_cids = [n \in ins |-> data.input_cids[n]],
                    !.output_hids = [n \in outs |-> data.output_hids[n]],
                    !.output_cids = [n \in outs |-> data.output_cids[n]]]

\* the body of SQLiteCallStorage.save(call_data, conn): [raised, table].  The
\* first INSERT fails on a primary key already in the table; otherwise k
\* INSERTs are executed, and the next one, if any is left, fails.
SQLiteCallStorage_save_body(table, data, k) ==
    IF data.hid \in DOMAIN table THEN [raised |-> TRUE, table |-> table]
    ELSE [raised |-> k < NumRows,
          table |-> IF k = 0 THEN table ELSE Put(table, data.hid, FirstRows(data, k))]

\* SQLiteCallStorage.save(call_data) without a connection
SQLiteCallStorage_save(in_memory, table, data, k) ==
    transaction(in_memory, table,
                SQLiteCallStorage_save_body(table, data, k).table,
                SQLiteCallStorage_save_body(table, data, k).raised)

\* a commit that writes the calls before the atoms, shapes and ops
Storage_commit_calls_first(s, in_memory, fault, written) ==
    LET c == CachedCallStorage_commit(s.calls, fault = "calls", written)
        sc == [s EXCEPT !.calls = c.c]
        a == CachedDictStorage_commit(s.atoms, fault = "atoms", written)
        sa == [sc EXCEPT !.atoms = a.c]
        h == CachedDictStorage_commit(s.shapes, fault = "shapes", written)
        sh == [sa EXCEPT !.shapes = h.c]
        o == CachedDictStorage_commit(s.ops, fault = "ops", written)
        so == [sh EXCEPT !.ops = o.c]
    IN IF c.raised THEN [raised |-> TRUE, s |-> rollback(in_memory, s, sc)]
       ELSE IF a.raised THEN [raised |-> TRUE, s |-> rollback(in_memory, s, sa)]
       ELSE IF h.raised THEN [raised |-> TRUE, s |-> rollback(in_memory, s, sh)]
       ELSE IF o.raised THEN [raised |-> TRUE, s |-> rollback(in_memory, s, so)]
       ELSE [raised |-> FALSE, s |-> so]

\* Storage.commit(): [raised, s]
Storage_commit(s, in_memory, fault, written) ==
    LET a == CachedDictStorage_commit(s.atoms, fault = "atoms", written)
        sa == [s EXCEPT !.atoms = a.c]
        h == CachedDictStorage_commit(s.shapes, fault = "shapes", written)
        sh == [sa EXCEPT !.shapes = h.c]
        o == CachedDictStorage_commit(s.ops, fault = "ops", written)
        so == [sh EXCEPT !.ops = o.c]
        c == CachedCallStorage_commit(s.calls, fault = "calls", written)
        sc == [so EXCEPT !.calls = c.c]
    IN IF a.raised THEN [raised |-> TRUE, s |-> rollback(in_memory, s, sa)]
       ELSE IF h.raised THEN [raised |-> TRUE, s |-> rollback(in_memory, s, sh)]
       ELSE IF o.raised THEN [raised |-> TRUE, s |-> rollback(in_memory, s, so)]
       ELSE IF c.raised THEN [raised |-> TRUE, s |-> rollback(in_memory, s, sc)]
       ELSE [raised |-> FALSE, s |-> sc]

\* the keys a failing commit may have written before it failed: any set of
\* writable dirty keys of the failing cache, not all of them unless the
\* failure is a key that cannot be written
Partial(good, dirty) == {w \in SUBSET good : good # dirty \/ w # good}
WrittenSets(s, fault) ==
    IF s.atoms.dirty_keys # DictGood(s.atoms) \/ (fault = "atoms" /\ s.atoms.dirty_keys # {})
    THEN Partial(DictGood(s.atoms), s.atoms.dirty_keys)
    ELSE IF s.shapes.dirty_keys # DictGood(s.shapes)
            \/ (fault = "shapes" /\ s.shapes.dirty_keys # {})
    THEN Partial(DictGood(s.shapes), s.shapes.dirty_keys)
    ELSE IF s.ops.dirty_keys # DictGood(s.ops) \/ (fault = "ops" /\ s.ops.dirty_keys # {})
    THEN Partial(DictGood(s.ops), s.ops.dirty_keys)
    ELSE IF s.calls.dirty_hids # CallGood(s.calls)
            \/ (fault = "calls" /\ s.calls.dirty_hids # {})
    THEN Partial(CallGood(s.calls), s.calls.dirty_hids)
    ELSE {{}}


\* -------------------------------------------------------- DuckDBRelStorage
\* the relation "test": columns a (the primary key) and b; a table is a
\* sequence of rows
RelKeys == {"x", "y"}
RelVals == {"z", "w"}
Rows == [a : RelKeys, b : RelVals]
ArrowTables == UNION {[1..n -> Rows] : n \in 0..MaxRows}
PrimaryKeys(ta) == {ta[i].a : i \in 1..Len(ta)}
\* the PRIMARY KEY constraint of the relation
Unique(ta) == \A i, j \in 1..Len(ta) : ta[i].a = ta[j].a => i = j

\* INSERT INTO relation SELECT * FROM rows: the statement fails as a whole on
\* a duplicate key; [raised, rel]
InsertInto(rel, rows) ==
    IF Unique(rel \o rows) THEN [raised |-> FALSE, rel |-> rel \o rows]
    ELSE [raised |-> TRUE, rel |-> rel]

\* DuckDBRelStorage.insert(relation, ta)
DuckDBRelStorage_insert(rel, ta) ==
    IF Len(ta) = 0 THEN [raised |-> FALSE, rel |-> rel] ELSE InsertInto(rel, ta)

\* an upsert that replaces the rows whose primary key is in the table given
DuckDBRelStorage_upsert_updating(rel, ta) ==
    IF Len(ta) = 0 THEN [raised |-> FALSE, rel |-> rel]
    ELSE InsertInto(SelectSeq(rel, LAMBDA row : row.a \notin PrimaryKeys(ta)), ta)

\* DuckDBRelStorage.upsert(relation, ta): INSERT ... SELECT * FROM ta WHERE
\* key NOT IN (SELECT key FROM relation)
DuckDBRelStorage_upsert(rel, ta) ==
    IF Len(ta) = 0 THEN [raised |-> FALSE, rel |-> rel]
    ELSE InsertInto(rel, SelectSeq(ta, LAMBDA row : row.a \notin PrimaryKeys(rel)))

\* DuckDBRelStorage.delete(relation, index): DELETE FROM relation WHERE key IN
\* (index); the outcomes, each [raised, rel].  For an empty index the statement
\* reads "... IN ()", which the database rejects as a syntax error or
\* evaluates to no row, depending on its parser.
DuckDBRelStorage_delete(rel, index) ==
    IF index = {}
    THEN {[raised |-> TRUE, rel |-> rel], [raised |-> FALSE, rel |-> rel]}
    ELSE {[raised |-> FALSE, rel |-> SelectSeq(rel, LAMBDA row : row.a \notin index)]}

\* ------------------------------------------------------- the versioner slot
NoDeps == "None"                       \* deps_path is None
DepsPaths == {"__main__", "R1", "R2"}  \* the deps_path of a versioned storage
Versioner(paths) == [paths |-> paths]
\* the roots __init__ derives from deps_path, and back
RootsOf(deps_path) == IF deps_path = "__main__" THEN <<>> ELSE <<deps_path>>
DepsOf(roots) == IF roots = <<>> THEN "__main__" ELSE roots[1]

\* Storage.__init__, the sources table and the versioner, on a database whose
\* sources table is `table`: [raised, versioned, sources]
Storage_init_sources(table, deps_path) ==
    LET g == CachedDictStorage_get([CachedDictStorage_init EXCEPT !.persistent = table],
                                   "versioner")
    IN IF deps_path = NoDeps
       THEN [raised |-> FALSE, versioned |-> FALSE, sources |-> g.c]
       ELSE IF g.ok
       THEN [raised |-> g.value.paths # RootsOf(deps_path), versioned |-> TRUE,
             sources |-> g.c]
       ELSE [raised |-> FALSE, versioned |-> TRUE,
             sources |-> CachedDictStorage_set(g.c, "versioner",
                                               Versioner(RootsOf(deps_path)))]

\* ------------------------------------------------------------------- state
VARIABLES
    atoms,            \* Storage.atoms: [cache, dirty_keys, persistent]
    shapes,           \* Storage.shapes
    ops,              \* Storage.ops
    calls,            \* Storage.calls: [cache, dirty_hids, persistent]
    db_in_memory,     \* DBAdapter.in_memory
    relation,         \* the rows of the relation "test" of a DuckDBRelStorage
    versioned,        \* Storage._versioned (deps_path was given)
    sources,          \* Storage.sources: [cache, dirty_keys, persistent]
    cached_versioner, \* Storage.cached_versioner and code_state are not None
    current_context,  \* Context.current_context is not None
    scopes,           \* `with storage:` blocks entered and not yet exited
    mem_saved,        \* hids of the refs that were in memory when save_ref wrote them
    last              \* the latest operation and whether it raised

vars == <<atoms, shapes, ops, calls, db_in_memory, relation, versioned, sources, cached_versioner,
          current_context, scopes, mem_saved, last>>

Storage == [atoms |-> atoms, shapes |-> shapes, ops |-> ops, calls |-> calls]

Becomes(s) ==
    /\ atoms' = s.atoms
    /\ shapes' = s.shapes
    /\ ops' = s.ops
    /\ calls' = s.calls

Op(kind, raised) == [kind |-> kind, raised |-> raised]

\* The refs user code can hand to the storage.  "a" and "b" are two handles
\* of the same value wrapped outside any call.  A handle is in memory or
\* detached.
BaseRef(hid, in_memory) ==
    AtomRef(get_content_hash(BaseVal), hid, in_memory, IF in_memory THEN BaseVal ELSE NoObj)
\* refs saved or passed to saved calls
UserRefs == {BaseRef(<<"a">>, TRUE), BaseRef(<<"a">>, FALSE)}
\* the arguments of Storage.call: <<x, save_calls>>; calls on "b" are not saved
CallArgs ==
    (UserRefs \X BOOLEAN) \cup {<<BaseRef(<<"b">>, TRUE), FALSE>>}

\* Storage.__init__ on an empty database, with or without deps_path
InitWith(deps_path) ==
    /\ atoms = CachedDictStorage_init
    /\ shapes = CachedDictStorage_init
    /\ ops = CachedDictStorage_init
    /\ calls = CachedCallStorage_init
    /\ db_in_memory \in BOOLEAN
    /\ relation = <<>>
    /\ versioned = Storage_init_sources(EmptyDict, deps_path).versioned
    /\ sources = Storage_init_sources(EmptyDict, deps_path).sources
    /\ cached_versioner = FALSE
    /\ current_context = FALSE
    /\ scopes = 0
    /\ mem_saved = {}
    /\ last = Op("init", FALSE)

Init == \E deps_path \in {NoDeps, "R1"} : InitWith(deps_path)

\* ----------------------------------------------------------------- actions
SaveRef(ref) ==
    /\ Becomes(save_ref(Storage, ref))
    /\ mem_saved' = IF ref.in_memory /\ ~CachedDictStorage_exists(shapes, ref.hid)
                    THEN mem_saved \cup {ref.hid} ELSE mem_saved
    /\ last' = Op("save_ref", FALSE)
    /\ UNCHANGED <<db_in_memory, relation, versioned, sources, cached_versioner, current_context, scopes>>

\* the storage after Storage.call returned or raised r
CallReturns(r, save_calls) ==
    /\ Becomes(r.s)
    /\ mem_saved' =
         IF ~r.raised /\ save_calls /\ ~CachedCallStorage_exists(calls, r.call.hid)
         THEN mem_saved \cup
                {v.hid : v \in {w \in Range(r.call.inputs) \cup Range(r.call.outputs) :
                                  /\ w.in_memory
                                  /\ ~CachedDictStorage_exists(shapes, w.hid)}}
         ELSE mem_saved
    /\ last' = Op("call", r.raised)

Call(op, x, save_calls) ==
    /\ ~versioned       \* the calls of a versioned storage are not modelled
    /\ \E proto \in Prototypes(Storage, op, [x |-> x]) :
         CallReturns(Storage_call(Storage, op, x, save_calls, proto), save_calls)
    /\ UNCHANGED <<db_in_memory, relation, versioned, sources, cached_versioner, current_context, scopes>>

DropCalls(hid, delete_dependents) ==
    /\ Becomes(drop_calls(Storage, {hid}, delete_dependents))
    /\ last' = Op("drop_calls", FALSE)
    /\ UNCHANGED <<db_in_memory, relation, versioned, sources, cached_versioner, current_context, scopes, mem_saved>>

CleanupRefs ==
    /\ IF current_context
       THEN /\ last' = Op("cleanup_refs", TRUE)
            /\ UNCHANGED <<atoms, shapes, ops, calls>>
       ELSE /\ last' = Op(IF get_orphans(Storage) = {} THEN "cleanup_refs"
                          ELSE "cleanup_refs_swept", FALSE)   \* the logged count
            /\ Becomes(cleanup_refs(Storage))
    /\ UNCHANGED <<db_in_memory, relation, versioned, sources, cached_versioner, current_context, scopes, mem_saved>>

Preload(lazy) ==
    /\ Becomes(preload(Storage, lazy))
    /\ last' = Op("preload", FALSE)
    /\ UNCHANGED <<db_in_memory, relation, versioned, sources, cached_versioner, current_context, scopes, mem_saved>>

Commit(fault) ==
    /\ \E written \in WrittenSets(Storage, fault) :
         LET r == Storage_commit(Storage, db_in_memory, fault, written)
         IN /\ Becomes(r.s)
            /\ last' = Op("commit", r.raised)
    /\ UNCHANGED <<db_in_memory, relation, versioned, sources, cached_versioner, current_context, scopes, mem_saved>>

\* Storage.__enter__: the slot is set to a context of this storage; a
\* versioned storage syncs the code and caches the versioner and code state
Enter ==
    /\ scopes < MaxScopes
    /\ current_context' = TRUE
    /\ scopes' = scopes + 1
    /\ cached_versioner' = (versioned \/ cached_versioner)
    /\ last' = Op("enter", FALSE)
    /\ UNCHANGED <<atoms, shapes, ops, calls, db_in_memory, relation, versioned, sources, mem_saved>>

\* an __exit__ that commits only when the body of the block did not raise
Exit_unless_body_raised(fault, body_raised) ==
    /\ scopes > 0
    /\ current_context' = FALSE
    /\ scopes' = scopes - 1
    /\ cached_versioner' = FALSE
    /\ IF body_raised
       THEN /\ last' = Op("exit_exc", FALSE)
            /\ UNCHANGED <<atoms, shapes, ops, calls>>
       ELSE \E written \in WrittenSets(Storage, fault) :
              LET r == Storage_commit(Storage, db_in_memory, fault, written)
              IN /\ Becomes(r.s)
                 /\ last' = Op("exit", r.raised)
    /\ UNCHANGED <<db_in_memory, relation, versioned, sources, mem_saved>>

\* Storage.__exit__(exc_type, ...): body_raised is `exc_type is not None`.
\* The slot is set to None, commit runs, and the finally clause clears the
\* cached versioner and code state; last.raised is whether commit raised.
Exit(fault, body_raised) ==
    /\ scopes > 0
    /\ current_context' = FALSE
    /\ scopes' = scopes - 1
    /\ cached_versioner' = FALSE
    /\ \E written \in WrittenSets(Storage, fault) :
         LET r == Storage_commit(Storage, db_in_memory, fault, written)
         IN /\ Becomes(r.s)
            /\ last' = Op(IF body_raised THEN "exit_exc" ELSE "exit", r.raised)
    /\ UNCHANGED <<db_in_memory, relation, versioned, sources, mem_saved>>

\* Storage.__init__(db_path, deps_path) on the database file of an earlier
\* storage: new, empty caches over the same tables, unless it raises
Construct(deps_path) ==
    /\ ~db_in_memory
    /\ scopes = 0
    /\ LET r == Storage_init_sources(sources.persistent, deps_path)
       IN IF r.raised
          THEN /\ last' = Op("init", TRUE)
               /\ UNCHANGED <<atoms, shapes, ops, calls, versioned, sources>>
          ELSE /\ atoms' = [CachedDictStorage_init EXCEPT !.persistent = atoms.persistent]
               /\ shapes' = [CachedDictStorage_init EXCEPT !.persistent = shapes.persistent]
               /\ ops' = [CachedDictStorage_init EXCEPT !.persistent = ops.persistent]
               /\ calls' = [CachedCallStorage_init EXCEPT !.persistent = calls.persistent]
               /\ versioned' = r.versioned
               /\ sources' = r.sources
               /\ last' = Op("init", FALSE)
    /\ UNCHANGED <<db_in_memory, relation, cached_versioner, current_context, scopes, mem_saved>>

\* the deps_path the storage was constructed with
CurrentDeps ==
    IF versioned THEN DepsOf(sources.cache["versioner"].paths) ELSE NoDeps

\* the storage constructed again with the same arguments
Reopen == Construct(CurrentDeps)

KnownCalls == (DOMAIN calls.cache) \cup (DOMAIN calls.persistent)

Next ==
    \/ \E ref \in UserRefs : SaveRef(ref)
    \/ \E op \in OpNames, a \in CallArgs : Call(op, a[1], a[2])
    \/ \E hid \in KnownCalls, dd \in BOOLEAN : DropCalls(hid, dd)
    \/ CleanupRefs
    \/ \E lazy \in BOOLEAN : Preload(lazy)
    \/ \E fault \in Faults : Commit(fault)
    \/ Enter
    \/ \E fault \in Faults, body_raised \in BOOLEAN : Exit(fault, body_raised)
    \/ Reopen

Spec == Init /\ [][Next]_vars

\* the storage used with the ops that change their argument
SideEffectNext ==
    \/ \E ref \in UserRefs : SaveRef(ref)
    \/ \E op \in MutatingOps, a \in CallArgs : Call(op, a[1], a[2])
    \/ \E fault \in Faults : Commit(fault)
    \/ Reopen

SideEffectSpec == Init /\ [][SideEffectNext]_vars

\* saved calls of the op that may change its argument, on two handles of one
\* value
OverwriteNext ==
    \/ \E ref \in UserRefs : SaveRef(ref)
    \/ \E hid \in {<<"a">>, <<"b">>} : Call("h", BaseRef(hid, TRUE), TRUE)
    \/ \E fault \in Faults : Commit(fault)
    \/ Reopen

OverwriteSpec == Init /\ [][OverwriteNext]_vars

\* storages constructed with any dependency roots on the same database
VersionerInit == \E deps_path \in {NoDeps} \cup DepsPaths : InitWith(deps_path)

VersionerNext ==
    \/ \E ref \in UserRefs : SaveRef(ref)
    \/ \E fault \in Faults : Commit(fault)
    \/ Enter
    \/ \E fault \in Faults, body_raised \in BOOLEAN : Exit(fault, body_raised)
    \/ \E deps_path \in {NoDeps} \cup DepsPaths : Construct(deps_path)

VersionerSpec == VersionerInit /\ [][VersionerNext]_vars

\* a DuckDBRelStorage with the relation "test"; `last` keeps the table given
RelInit ==
    /\ atoms = CachedDictStorage_init
    /\ shapes = CachedDictStorage_init
    /\ ops = CachedDictStorage_init
    /\ calls = CachedCallStorage_init
    /\ db_in_memory = TRUE
    /\ relation = <<>>
    /\ versioned = FALSE
    /\ sources = CachedDictStorage_init
    /\ cached_versioner = FALSE
    /\ current_context = FALSE
    /\ scopes = 0
    /\ mem_saved = {}
    /\ last = [kind |-> "create_relation", raised |-> FALSE, ta |-> <<>>, index |-> {}]

RelReturns(kind, r, ta, index) ==
    /\ relation' = r.rel
    /\ last' = [kind |-> kind, raised |-> r.raised, ta |-> ta, index |-> index]
    /\ UNCHANGED <<atoms, shapes, ops, calls, db_in_memory, versioned, sources,
                   cached_versioner, current_context, scopes, mem_saved>>

Insert(ta) == RelReturns("insert", DuckDBRelStorage_insert(relation, ta), ta, {})
Upsert(ta) == RelReturns("upsert", DuckDBRelStorage_upsert(relation, ta), ta, {})
Delete(index) ==
    \E r \in DuckDBRelStorage_delete(relation, index) : RelReturns("delete", r, <<>>, index)

RelNext ==
    \/ \E ta \in ArrowTables : Insert(ta)
    \/ \E ta \in ArrowTables : Upsert(ta)
    \/ \E index \in SUBSET RelKeys : Delete(index)

RelSpec == RelInit /\ [][RelNext]_vars

\* call tables given as data: calls c1, c2, ... with one input and one output
\* among the refs r1, r2, r3, cycles included
GraphRefs == {<<"r1">>, <<"r2">>, <<"r3">>}
GraphCalls == {<<"c", i>> : i \in 1..MaxGraphCalls}
GraphRow(h, in, out) ==
    [op_name |-> "f", cid |-> h, hid |-> h,
     input_hids |-> [k \in {"x"} |-> in], output_hids |-> [k \in {"output_0"} |-> out],
     input_cids |-> [k \in {"x"} |-> in], output_cids |-> [k \in {"output_0"} |-> out]]
GraphTables ==
    UNION {[hs -> GraphRefs \X GraphRefs] : hs \in SUBSET GraphCalls}
GraphDf(g) == [h \in DOMAIN g |-> GraphRow(h, g[h][1], g[h][2])]

\* an InMemCallStorage holding a call table, and the hids of a query
GraphInit ==
    /\ atoms = CachedDictStorage_init
    /\ shapes = CachedDictStorage_init
    /\ ops = CachedDictStorage_init
    /\ db_in_memory = TRUE
    /\ relation = <<>>
    /\ versioned = FALSE
    /\ sources = CachedDictStorage_init
    /\ cached_versioner = FALSE
    /\ current_context = FALSE
    /\ scopes = 0
    /\ mem_saved = {}
    /\ \E g \in GraphTables, ref_hids \in SUBSET GraphRefs, call_hids \in SUBSET GraphCalls :
         /\ calls = [CachedCallStorage_init EXCEPT !.cache = GraphDf(g)]
         /\ last = [kind |-> "query", raised |-> FALSE,
                    ref_hids |-> ref_hids, call_hids |-> call_hids]

\* InMemCallStorage.get_dependencies / get_dependents on the call cache
GetDependencies ==
    /\ last.kind = "query"
    /\ last' = [kind |-> "get_dependencies", raised |-> FALSE,
                ref_hids |-> last.ref_hids, call_hids |-> last.call_hids,
                result |-> get_dependencies(calls.cache, last.ref_hids, last.call_hids),
                passes |-> get_dependencies_iterations(calls.cache, last.ref_hids,
                                                       last.call_hids)]
    /\ UNCHANGED <<atoms, shapes, ops, calls, db_in_memory, relation, versioned, sources,
                   cached_versioner, current_context, scopes, mem_saved>>
GetDependents ==
    /\ last.kind = "query"
    /\ last' = [kind |-> "get_dependents", raised |-> FALSE,
                ref_hids |-> last.ref_hids, call_hids |-> last.call_hids,
                result |-> get_dependents(calls.cache, last.ref_hids, last.call_hids),
                passes |-> get_dependents_iterations(calls.cache, last.ref_hids,
                                                     last.call_hids)]
    /\ UNCHANGED <<atoms, shapes, ops, calls, db_in_memory, relation, versioned, sources,
                   cached_versioner, current_context, scopes, mem_saved>>

GraphNext == GetDependencies \/ GetDependents

GraphSpec == GraphInit /\ [][GraphNext]_vars

\* the call sites of f(x, *args, z, **kwargs): every argument a ref or an
\* Ignore(value)
SiteArgs == {RefArg(BaseRef(<<"a">>, TRUE)), RefArg(BaseRef(<<"b">>, TRUE)),
             Ignore(BaseVal), Ignore(f_user("f", BaseVal))}
Sites ==
    [x : SiteArgs, z : SiteArgs,
     args : UNION {[1..n -> SiteArgs] : n \in 0..MaxVarArgs},
     kwargs : {EmptyDict} \cup {[k \in {"k"} |-> a] : a \in SiteArgs}]

\* a call site about to be parsed
ParseInit ==
    /\ atoms = CachedDictStorage_init
    /\ shapes = CachedDictStorage_init
    /\ ops = CachedDictStorage_init
    /\ calls = CachedCallStorage_init
    /\ db_in_memory \in BOOLEAN
    /\ relation = <<>>
    /\ versioned = FALSE
    /\ sources = CachedDictStorage_init
    /\ cached_versioner = FALSE
    /\ current_context = FALSE
    /\ scopes = 0
    /\ mem_saved = {}
    /\ \E site \in Sites : last = [kind |-> "site", raised |-> FALSE, site |-> site]

\* Storage.parse_args on the call site; `last` keeps the site and the result
ParseArgs ==
    /\ last.kind = "site"
    /\ last' = [kind |-> "parse_args", raised |-> FALSE, site |-> last.site,
                result |-> parse_site(last.site)]
    /\ UNCHANGED <<atoms, shapes, ops, calls, db_in_memory, relation, versioned, sources,
                   cached_versioner, current_context, scopes, mem_saved>>

ParseNext == ParseArgs

ParseSpec == ParseInit /\ [][ParseNext]_vars

\* chains of calls: ChainRef(0) is the handle "a", ChainRef(n + 1) the output
\* Storage.call returned for f(ChainRef(n))
RECURSIVE ChainRef(_)
ChainRef(n) ==
    IF n = 0 THEN BaseRef(<<"a">>, TRUE)
    ELSE wrap_atom(f_user("f", ChainRef(n - 1).obj),
                   get_output_history_id(
                       get_call_history_id("f", [x |-> ChainRef(n - 1)]), "output_0"))
ChainRefs == {ChainRef(n) : n \in 0..(MaxChain - 1)}

\* the storage used with calls on the outputs of earlier calls
ChainNext ==
    \/ \E x \in ChainRefs : Call("f", x, TRUE)
    \/ \E hid \in KnownCalls, dd \in BOOLEAN : DropCalls(hid, dd)
    \/ \E fault \in Faults : Commit(fault)
    \/ Reopen

ChainSpec == Init /\ [][ChainNext]_vars


\* =============================================================== properties
\* every argument user code may pass to a call
AllArgs == UserRefs \cup {BaseRef(<<"b">>, TRUE)}
Tables(s) == <<s.atoms.persistent, s.shapes.persistent, s.ops.persistent, s.calls.persistent>>

RowRefs(d) ==
    {<<d.input_hids[k], d.input_cids[k]>> : k \in DOMAIN d.input_hids}
       \cup {<<d.output_hids[k], d.output_cids[k]>> : k \in DOMAIN d.output_hids}
C3_PersistedCallsHaveTheirRefs ==
    \A h \in DOMAIN calls.persistent :
      \A r \in RowRefs(calls.persistent[h]) :
        /\ r[1] \in DOMAIN shapes.persistent
        /\ r[1] \in mem_saved => r[2] \in DOMAIN atoms.persistent

\* C4: in every write-through cache the dirty set is a subset of the keys of
\* the in-memory cache.
C4_DirtyKeysAreCached ==
    /\ atoms.dirty_keys \subseteq DOMAIN atoms.cache
    /\ shapes.dirty_keys \subseteq DOMAIN shapes.cache
    /\ ops.dirty_keys \subseteq DOMAIN ops.cache
    /\ calls.dirty_hids \subseteq DOMAIN calls.cache

\* C5: every key in a cache and not in its dirty set is in the persistent
\* table with the same value, also after a commit that failed part-way.
DictMirrors(c) ==
    \A k \in (DOMAIN c.cache) \ c.dirty_keys :
       k \in DOMAIN c.persistent /\ deserialize(c.persistent[k]) = c.cache[k]
C5_CleanEntriesMirrorTheTables ==
    /\ DictMirrors(atoms)
    /\ DictMirrors(shapes)
    /\ DictMirrors(ops)
    /\ \A h \in (DOMAIN calls.cache) \ calls.dirty_hids :
         h \in DOMAIN calls.persistent /\ calls.persistent[h] = calls.cache[h]

\* C6: a write (save_ref, and the save_call of a call) puts the new keys in
\* the caches, marks them dirty, and leaves every persistent table unchanged.
C6_WritesStayInTheCaches ==
    /\ \A ref \in AllArgs :
         LET s2 == save_ref(Storage, ref)
         IN /\ Tables(s2) = Tables(Storage)
            /\ ~CachedDictStorage_exists(shapes, ref.hid) =>
                 /\ ref.hid \in DOMAIN s2.shapes.cache
                 /\ ref.hid \in s2.shapes.dirty_keys
                 /\ ref.in_memory => /\ s2.atoms.cache[ref.cid] = serialize(ref.obj)
                                     /\ ref.cid \in s2.atoms.dirty_keys
    /\ \A op \in OpNames, x \in AllArgs :
         \A p \in Prototypes(Storage, op, [x |-> x]) :
           LET r == Storage_call(Storage, op, x, TRUE, p)
           IN /\ Tables(r.s) = Tables(Storage)
              /\ (~r.raised /\ ~CachedCallStorage_exists(calls, r.call.hid)) =>
                   /\ r.call.hid \in DOMAIN r.s.calls.cache
                   /\ r.call.hid \in r.s.calls.dirty_hids

\* a state in which uncommitted writes of a saved call sit in the caches
C6_Witness ==
    /\ last = Op("call", FALSE)
    /\ calls.dirty_hids # {}
    /\ shapes.dirty_keys # {}
    /\ atoms.dirty_keys # {}
    /\ calls.persistent = EmptyDict
    /\ shapes.persistent = EmptyDict

\* every entry dirty in s0 has a row in the tables of s1, and s1 has no dirty entry
AllDirtyWritten(s0, s1) ==
    /\ s0.atoms.dirty_keys \subseteq DOMAIN s1.atoms.persistent
    /\ s0.shapes.dirty_keys \subseteq DOMAIN s1.shapes.persistent
    /\ s0.ops.dirty_keys \subseteq DOMAIN s1.ops.persistent
    /\ s0.calls.dirty_hids \subseteq DOMAIN s1.calls.persistent
    /\ s1.atoms.dirty_keys = {} /\ s1.shapes.dirty_keys = {}
    /\ s1.ops.dirty_keys = {} /\ s1.calls.dirty_hids = {}

\* every entry dirty in s0 is dirty in s1
DirtyKept(s0, s1) ==
    /\ s0.atoms.dirty_keys \subseteq s1.atoms.dirty_keys
    /\ s0.shapes.dirty_keys \subseteq s1.shapes.dirty_keys
    /\ s0.ops.dirty_keys \subseteq s1.ops.dirty_keys
    /\ s0.calls.dirty_hids \subseteq s1.calls.dirty_hids

\* C7: Storage.commit is atomic over its caches, on a file database and on an
\* in-memory one: whether it returns or raises, either every entry that was
\* dirty is in the persistent tables and the dirty sets are empty, or the
\* persistent tables are what they were.
C7_CommitIsAtomic ==
    \A ft \in Faults :
      \A w \in WrittenSets(Storage, ft) :
        LET r == Storage_commit(Storage, db_in_memory, ft, w)
        IN AllDirtyWritten(Storage, r.s) \/ Tables(r.s) = Tables(Storage)

\* C8: when a cache commit raises inside Storage.commit, the tables are rolled
\* back and every entry that was dirty before the commit is still dirty.
C8_FailedCommitKeepsDirty ==
    \A ft \in Faults :
      \A w \in WrittenSets(Storage, ft) :
        LET r == Storage_commit(Storage, db_in_memory, ft, w)
        IN r.raised => /\ Tables(r.s) = Tables(Storage)
                       /\ DirtyKept(Storage, r.s)

\* C9: Storage.commit writes atoms, shapes, ops, then calls: wherever a commit
\* stops, every call row it has written has the rows of the dirty shapes,
\* atoms and op it references written before it.  The tables a commit has
\* reached when it stops are those an autocommit connection keeps.
C9_CallsAreWrittenLast ==
    \A ft \in Faults :
      \A w \in WrittenSets(Storage, ft) :
        LET r == Storage_commit(Storage, TRUE, ft, w)
        IN \A h \in (DOMAIN r.s.calls.persistent) \ (DOMAIN calls.persistent) :
             LET d == r.s.calls.persistent[h]
             IN /\ \A x \in RowRefs(d) :
                     /\ x[1] \in shapes.dirty_keys => x[1] \in DOMAIN r.s.shapes.persistent
                     /\ x[2] \in atoms.dirty_keys => x[2] \in DOMAIN r.s.atoms.persistent
                /\ d.op_name \in ops.dirty_keys => d.op_name \in DOMAIN r.s.ops.persistent

\* a commit has just written a call row together with its shapes, atoms and op
C9_Witness ==
    /\ last = Op("commit", FALSE)
    /\ \E h \in DOMAIN calls.persistent :
         /\ \A x \in RowRefs(calls.persistent[h]) :
              x[1] \in DOMAIN shapes.persistent /\ x[2] \in DOMAIN atoms.persistent
         /\ calls.persistent[h].op_name \in DOMAIN ops.persistent
    /\ calls.dirty_hids = {}

\* C10: commit is idempotent: a second commit right after a first one does
\* not raise and leaves the tables, the caches and the dirty sets as the
\* first one left them (no statement fails in the relational store).
C10_CommitIsIdempotent ==
    LET r1 == Storage_commit(Storage, db_in_memory, "none", {})
        r2 == Storage_commit(r1.s, db_in_memory, "none", {})
    IN ~r2.raised /\ r2.s = r1.s

\* the keys a KV cache knows
DictKeys(c) == (DOMAIN c.cache) \cup c.dirty_keys \cup (DOMAIN c.persistent)
DictDropped(c, key) ==
    LET c2 == CachedDictStorage_drop(c, key)
    IN /\ key \notin DOMAIN c2.cache
       /\ key \notin c2.dirty_keys
       /\ key \notin DOMAIN c2.persistent
       /\ ~CachedDictStorage_exists(c2, key)

\* C11: after drop(key) on a write-through cache, KV cache or call cache,
\* the key is absent from the in-memory cache, from the dirty set and from
\* the persistent table, and exists(key) is false.
C11_DropRemovesEverywhere ==
    /\ \A key \in DictKeys(atoms) : DictDropped(atoms, key)
    /\ \A key \in DictKeys(shapes) : DictDropped(shapes, key)
    /\ \A key \in DictKeys(ops) : DictDropped(ops, key)
    /\ \A hid \in KnownCalls :
         LET r == CachedCallStorage_drop(calls, hid)
         IN /\ ~r.raised
            /\ hid \notin DOMAIN r.c.cache
            /\ hid \notin r.c.dirty_hids
            /\ hid \notin DOMAIN r.c.persistent
            /\ ~CachedCallStorage_exists(r.c, hid)

\* a read of a KV cache: the cached value on a hit; on a miss the value of
\* the table, memoized and not marked dirty
DictReads(c) ==
    \A key \in (DOMAIN c.cache) \cup (DOMAIN c.persistent) :
      LET g == CachedDictStorage_get(c, key)
      IN /\ g.ok
         /\ g.c.dirty_keys = c.dirty_keys
         /\ g.c.persistent = c.persistent
         /\ IF key \in DOMAIN c.cache
            THEN g.value = c.cache[key] /\ g.c = c
            ELSE /\ g.value = deserialize(c.persistent[key])
                 /\ g.c.cache = Put(c.cache, key, g.value)

\* C12: a read from a write-through cache returns the cached value when the
\* key is cached; on a miss it returns the persistent value and stores it in
\* the cache without marking it dirty (KV caches and call cache).
C12_ReadsHitTheCacheOrMemoize ==
    /\ DictReads(atoms)
    /\ DictReads(shapes)
    /\ DictReads(ops)
    /\ \A hid \in KnownCalls :
         LET g == CachedCallStorage_get_data(calls, hid)
         IN /\ g.ok
            /\ g.c.dirty_hids = calls.dirty_hids
            /\ g.c.persistent = calls.persistent
            /\ IF hid \in DOMAIN calls.cache
               THEN g.data = calls.cache[hid] /\ g.c = calls
               ELSE /\ g.data = calls.persistent[hid]
                    /\ g.c.cache = Put(calls.cache, hid, g.data)

\* the refs user code may hand to save_ref: its own, and those of the shapes
\* the storage holds
KnownRefs ==
    AllArgs \cup Range(shapes.cache)
            \cup {deserialize(b) : b \in Range(shapes.persistent)}

\* C13: save_ref on a ref whose hid is already in shapes (cache or table)
\* changes no table, cache or dirty set, and save_ref twice is save_ref once.
C13_SaveRefIsIdempotent ==
    \A ref \in KnownRefs :
      LET s1 == save_ref(Storage, ref)
      IN /\ CachedDictStorage_exists(shapes, ref.hid) => s1 = Storage
         /\ save_ref(s1, ref) = s1

\* a save_ref has just run on a hid that was already committed: nothing is dirty
C13_Witness ==
    /\ last = Op("save_ref", FALSE)
    /\ <<"a">> \in DOMAIN shapes.persistent
    /\ shapes.dirty_keys = {}
    /\ atoms.dirty_keys = {}

\* what save_call(call) on s0 must have made of the storage, s1
SavedCall(s0, s1, call) ==
    IF exists_call(s0, call.hid) THEN s1 = s0
    ELSE /\ Tables(s1) = Tables(s0)
         /\ CachedDictStorage_exists(s1.ops, call.op)
         /\ ~CachedDictStorage_exists(s0.ops, call.op) =>
              /\ s1.ops.cache[call.op] = [name |-> call.op]
              /\ call.op \in s1.ops.dirty_keys
         /\ CachedDictStorage_exists(s0.ops, call.op) => s1.ops = s0.ops
         /\ \A v \in Range(call.inputs) \cup Range(call.outputs) :
              /\ CachedDictStorage_exists(s1.shapes, v.hid)
              /\ ~CachedDictStorage_exists(s0.shapes, v.hid) =>
                   /\ s1.shapes.cache[v.hid] = detached(v)
                   /\ v.in_memory => s1.atoms.cache[v.cid] = serialize(v.obj)
         /\ s1.calls.cache = Put(s0.calls.cache, call.hid, CallData(call))
         /\ s1.calls.dirty_hids = s0.calls.dirty_hids \cup {call.hid}
         /\ exists_call(s1, call.hid)

\* C14: save_call changes nothing when the call hid is in the call cache or
\* the calls table; otherwise it records the op if its name is new, saves
\* every input and output with save_ref and records the call, so that
\* exists_call(hid) holds; a second save_call changes nothing.
C14_SaveCallIsIdempotent ==
    \A op \in OpNames, x \in AllArgs :
      \A proto \in Prototypes(Storage, op, [x |-> x]) :
        LET r == call_internal(Storage, op, [x |-> x], proto)
        IN ~r.raised =>
             LET s1 == save_call(r.s, r.call)
             IN /\ SavedCall(r.s, s1, r.call)
                /\ save_call(s1, r.call) = s1

\* a call has just been saved: it is dirty in the call cache, with its op and
\* the shapes of its inputs and outputs in the caches
C14_Witness ==
    /\ last = Op("call", FALSE)
    /\ \E h \in calls.dirty_hids \cap DOMAIN calls.cache :
         /\ calls.cache[h].op_name \in DOMAIN ops.cache
         /\ \A x \in RowRefs(calls.cache[h]) : x[1] \in DOMAIN shapes.cache

\* the rows of every call the storage knows, cached or in the table
AllCallRows(s) == Range(s.calls.cache) \cup Range(s.calls.persistent)
\* the shapes the storage knows, cached or in the table
AllShapes(s) ==
    Range(s.shapes.cache) \cup {deserialize(b) : b \in Range(s.shapes.persistent)}
DictKnown(c) == (DOMAIN c.cache) \cup (DOMAIN c.persistent)

\* C15: after cleanup_refs outside a context no shape remains whose hid is
\* in no call row, and no atom whose cid is neither in a call row nor in a
\* retained shape; shapes whose hid is in a row of the calls table, and atoms
\* whose cid is in such a row or in a retained shape, are left in place.
C15_CleanupSweepsOrphans ==
    ~current_context =>
      LET s1 == cleanup_refs(Storage)
          rows == UNION {RowRefs(d) : d \in AllCallRows(s1)}
      IN /\ \A hid \in DictKnown(s1.shapes) : \E x \in rows : x[1] = hid
         /\ \A cid \in DictKnown(s1.atoms) :
              \/ \E x \in rows : x[2] = cid
              \/ \E sh \in AllShapes(s1) : sh.cid = cid
         /\ \A hid \in DictKnown(shapes) \cap hids_in_calls(calls.persistent) :
              hid \in DictKnown(s1.shapes)
         /\ \A cid \in DictKnown(atoms) :
              (cid \in cids_in_calls(calls.persistent)
                 \/ \E b \in Range(s1.shapes.persistent) : deserialize(b).cid = cid)
              => cid \in DictKnown(s1.atoms)

\* C16: cleanup_refs twice in succession: the second run finds no orphan and
\* no unreferenced cid and changes no table or cache.
C16_CleanupIsIdempotent ==
    ~current_context =>
      LET s1 == cleanup_refs(Storage)
      IN /\ get_orphans(s1) = {}
         /\ get_unreferenced_cids(s1) = {}
         /\ cleanup_refs(s1) = s1

\* a cleanup_refs has just swept orphans out of the shapes table
C16_Witness ==
    /\ last = Op("cleanup_refs_swept", FALSE)
    /\ get_orphans(Storage) = {}

\* C17: while a storage context is open, cleanup_refs and a drop_calls that
\* expands the dependents (the operations built on the provenance queries)
\* raise and leave the caches and the tables unchanged.
C17_NoProvenanceInContext ==
    [][current_context =>
         /\ CleanupRefs =>
              (last'.raised /\ UNCHANGED <<atoms, shapes, ops, calls>>)
         /\ \A hid \in KnownCalls :
              DropCalls(hid, TRUE) =>
                (last'.raised /\ UNCHANGED <<atoms, shapes, ops, calls>>)]_vars

\* C18: every exit of a storage scope clears the current-context slot and
\* runs commit, whether or not the body of the block raised, and leaves the
\* cached versioner and code state cleared, also when that commit raises.
C18_ExitClearsAndCommits ==
    [][scopes' < scopes =>
         /\ ~current_context'
         /\ ~cached_versioner'
         /\ \E ft \in Faults :
              \E w \in WrittenSets(Storage, ft) :
                LET r == Storage_commit(Storage, db_in_memory, ft, w)
                IN Storage' = r.s /\ last'.raised = r.raised]_vars

\* a versioned storage has left a scope whose body raised, with entries to
\* commit, and the commit raised: the slot and the versioner are cleared
C18_Witness ==
    /\ last = Op("exit_exc", TRUE)
    /\ versioned
    /\ ~cached_versioner
    /\ ~current_context
    /\ shapes.dirty_keys # {}

\* C19: on exit of a storage scope the current-context slot is restored to
\* what it was before the scope was entered: while a scope is still open
\* (an outer one, after an inner one exits) in_context() is true.
C19_SlotIsRestoredOnExit == scopes > 0 => current_context

\* C20: a call of an op without allow_side_effects whose function changes its
\* argument fails and leaves every cache and table as it was; a call of an op
\* that declares allow_side_effects completes.
Mutated(op, v) == get_content_hash(f_mutates(op, v)) # get_content_hash(v)
AllDependents(s, hids) ==
    get_dependents([h \in (DOMAIN s.calls.cache) \cup (DOMAIN s.calls.persistent) |->
                      IF h \in DOMAIN s.calls.cache THEN s.calls.cache[h]
                      ELSE s.calls.persistent[h]], {}, hids)[2]

\* C21: after drop_calls(hids, delete_dependents) no call of hids is in the
\* call cache or in the calls table; with delete_dependents the same holds for
\* every call that depends on a call of hids.
C21_DropCallsRemovesDependents ==
    \A hid \in KnownCalls, dd \in BOOLEAN :
      LET s1 == drop_calls(Storage, {hid}, dd)
          gone == IF dd THEN {hid} \cup AllDependents(Storage, {hid}) ELSE {hid}
      IN \A h \in gone :
           /\ ~exists_call(s1, h)
           /\ ~InMemCallStorage_exists(s1.calls.cache, h)
           /\ ~SQLiteCallStorage_exists(s1.calls.persistent, h)

\* C22: a method run under the transaction wrapper without a connection
\* leaves all its writes in the table when it returns and none of them when
\* it raises, on a file database and on an in-memory one, and the connection
\* is closed afterwards unless the database is in memory.
C22_TransactionCommitsOrRollsBack ==
    /\ \A d \in Range(calls.cache), k \in 0..NumRows :
         LET r == SQLiteCallStorage_save(db_in_memory, calls.persistent, d, k)
         IN /\ r.closed = ~db_in_memory
            /\ ~r.raised => r.table = Put(calls.persistent, d.hid, d)
            /\ r.raised => r.table = calls.persistent
    /\ \A key \in DOMAIN shapes.cache, failed \in BOOLEAN :
         LET now == IF failed THEN shapes.persistent
                    ELSE SQLiteDictStorage_set(shapes.persistent, key, shapes.cache[key])
             r == transaction(db_in_memory, shapes.persistent, now, failed)
         IN /\ r.closed = ~db_in_memory
            /\ ~r.raised =>
                 r.table = SQLiteDictStorage_set(shapes.persistent, key, shapes.cache[key])
            /\ r.raised => r.table = shapes.persistent

\* C23: a transactional method called with the connection of an outer
\* transaction does not commit, roll back or close it; what it wrote is in
\* the table when the outer transaction commits and is gone when the outer
\* transaction fails afterwards.
C23_NestedTransactionsFold ==
    /\ \A d \in Range(calls.cache) :
         LET body == SQLiteCallStorage_save_body(calls.persistent, d, NumRows)
             inner == transaction_folded(body.table, body.raised)
             done == transaction(db_in_memory, calls.persistent, inner.table, FALSE)
             failed == transaction(db_in_memory, calls.persistent, inner.table, TRUE)
         IN /\ ~inner.closed
            /\ inner.table = body.table
            /\ done.table = body.table
            /\ failed.table = calls.persistent
    /\ \A key \in atoms.dirty_keys \cap DOMAIN atoms.cache :
         LET now == SQLiteDictStorage_set(atoms.persistent, key, atoms.cache[key])
             inner == transaction_folded(now, FALSE)
             done == transaction(db_in_memory, atoms.persistent, inner.table, FALSE)
             failed == transaction(db_in_memory, atoms.persistent, inner.table, TRUE)
         IN /\ ~inner.closed
            /\ done.table = now
            /\ failed.table = atoms.persistent

\* the requests of at most MaxReq hids over a set of hids
Requests(hids) == UNION {[1..n -> hids] : n \in 0..MaxReq}

\* C24: for hids that all exist, mget_data returns one record per requested
\* hid, in the order of the request, repeated hids included, each record made
\* of the input and output rows of that call; Storage.mget_call returns the
\* calls in the order of the request for hids of the cache and hids of the
\* table alike.
C24_MgetKeepsRequestOrder ==
    /\ \A hs \in Requests(DOMAIN calls.cache) :
         LET r == mget_data(calls.cache, hs)
         IN /\ r.ok /\ Len(r.datas) = Len(hs)
            /\ \A i \in 1..Len(hs) : /\ r.datas[i].hid = hs[i]
                                      /\ CallRows(r.datas[i]) = CallRows(calls.cache[hs[i]])
    /\ \A hs \in Requests(DOMAIN calls.persistent) :
         LET r == mget_data(calls.persistent, hs)
         IN /\ r.ok /\ Len(r.datas) = Len(hs)
            /\ \A i \in 1..Len(hs) : /\ r.datas[i].hid = hs[i]
                                      /\ CallRows(r.datas[i]) = CallRows(calls.persistent[hs[i]])
    /\ \A hs \in Requests(KnownCalls), lazy \in BOOLEAN :
         LET r == mget_call(Storage, hs, lazy)
         IN /\ r.ok /\ Len(r.calls) = Len(hs)
            /\ \A i \in 1..Len(hs) : r.calls[i].hid = hs[i]

\* a ref of user code whose value is not the default
OtherRef == AtomRef(get_content_hash(f_user("f", BaseVal)), <<"c">>, TRUE, f_user("f", BaseVal))
\* the values of y a call site may supply
SuppliedArgs == {Raw(v) : v \in Vals} \cup {RefArg(r) : r \in AllArgs \cup {OtherRef}}
ValueOf(s, a) == IF a.kind = "ref" THEN unwrap_atom(s, a.ref).obj ELSE a.val

ForgetIgnored(a) == IF a.kind = "ignore" THEN Ignore(BaseVal) ELSE a
Forget(site) ==
    [x |-> ForgetIgnored(site.x), z |-> ForgetIgnored(site.z),
     args |-> [i \in 1..Len(site.args) |-> ForgetIgnored(site.args[i])],
     kwargs |-> [k \in DOMAIN site.kwargs |-> ForgetIgnored(site.kwargs[k])]]
\* an argument is left out of the storage inputs when it is an Ignore, and is
\* forwarded as its raw value
Slotted(a, slot, bound, storage_inputs) ==
    IF a.kind = "ignore"
    THEN slot \notin DOMAIN storage_inputs /\ bound = Raw(a.val)
    ELSE slot \in DOMAIN storage_inputs /\ storage_inputs[slot] = a /\ bound = a

\* C26: every argument wrapped in Ignore, be it positional, keyword, an
\* element of *args or a value of **kwargs, is left out of storage_inputs and
\* forwarded to the function as its raw value; call sites that differ only in
\* ignored values have the same call hid.
C26_IgnoredArgumentsAreExcluded ==
    last.kind = "parse_args" =>
      LET site == last.site
          r == last.result
      IN /\ Slotted(site.x, "x", r.bound_arguments.x, r.storage_inputs)
         /\ Slotted(site.z, "z", r.bound_arguments.z, r.storage_inputs)
         /\ Len(r.bound_arguments.args) = Len(site.args)
         /\ \A i \in 1..Len(site.args) :
              Slotted(site.args[i], VarSlot(i), r.bound_arguments.args[i], r.storage_inputs)
         /\ DOMAIN r.bound_arguments.kwargs = DOMAIN site.kwargs
         /\ \A k \in DOMAIN site.kwargs :
              Slotted(site.kwargs[k], k, r.bound_arguments.kwargs[k], r.storage_inputs)
         /\ site_call_history_id("f", r.storage_inputs)
              = site_call_history_id("f", parse_site(Forget(site)).storage_inputs)

\* a parsed call site with an ignored argument in each of the four places,
\* and a stored one among the variadic arguments
C26_Witness ==
    /\ last.kind = "parse_args"
    /\ last.site.x.kind = "ignore"
    /\ last.site.z.kind = "ignore"
    /\ Len(last.site.args) = MaxVarArgs
    /\ last.site.args[1].kind = "ignore"
    /\ last.site.args[MaxVarArgs].kind = "ref"
    /\ "k" \in DOMAIN last.site.kwargs
    /\ last.site.kwargs["k"].kind = "ignore"
    /\ last.site.x.val # BaseVal

\* composite refs over the user's atoms
CompositeRefs ==
    {CompositeRef("list", <<"l">>, <<BaseRef(<<"a">>, TRUE), BaseRef(<<"b">>, TRUE)>>),
     CompositeRef("dict", <<"d">>, [k \in {"x"} |-> BaseRef(<<"a">>, TRUE)])}

\* C27: a ref saved with save_ref is loaded back by load_ref(hid, lazy=False)
\* with the same cid, the same hid and the same unwrapped value, be it an
\* atom, a list or a dict.
C27_SavedRefsLoadBack ==
    /\ \A r \in {u \in UserRefs : u.in_memory} :
         LET l == load_ref(save_ref(Storage, r), r.hid, FALSE)
         IN l.ok /\ l.ref.cid = r.cid /\ l.ref.hid = r.hid /\ l.ref.obj = r.obj
    /\ \A r \in CompositeRefs :
         LET l == load_composite_ref(save_composite_ref(Storage, r), r.hid, FALSE)
             u == unwrap_composite(l.s, l.ref)
         IN /\ l.ok /\ l.ref.cid = r.cid /\ l.ref.hid = r.hid
            /\ u.ok /\ u.obj = [k \in DOMAIN r.obj |-> r.obj[k].obj]

\* C28: once a storage constructed with dependency roots R1 has committed, a
\* storage cannot be constructed on the same database with other roots: the
\* constructor raises.
C28_OtherRootsAreRefused ==
    [][(/\ versioned /\ last.kind = "commit" /\ ~last.raised
        /\ last'.kind = "init" /\ ~last'.raised /\ versioned')
       => sources'.cache["versioner"].paths = sources.cache["versioner"].paths]_vars

\* every payload of the atoms storage, cached or written, is the
\* serialization of a value whose content id is its key
ContentAddressed(a) ==
    /\ \A cid \in DOMAIN a.cache :
         get_content_hash(deserialize(a.cache[cid])) = cid
    /\ \A cid \in DOMAIN a.persistent :
         get_content_hash(deserialize(SQLiteDictStorage_get(a.persistent, cid))) = cid
\* no payload of a is another payload in b
PayloadsKept(a, b) ==
    /\ \A cid \in (DOMAIN a.cache) \cap (DOMAIN b.cache) : b.cache[cid] = a.cache[cid]
    /\ \A cid \in (DOMAIN a.persistent) \cap (DOMAIN b.persistent) :
         b.persistent[cid] = a.persistent[cid]

AbsentRows(rel, ta) == SelectSeq(ta, LAMBDA row : row.a \notin PrimaryKeys(rel))
\* the rows of rel are the first rows of after, as they were
RowsKept(rel, after) ==
    /\ Len(after) >= Len(rel)
    /\ \A i \in 1..Len(rel) : after[i] = rel[i]

\* C30 as stated: upsert never changes or duplicates an existing row and
\* inserts exactly the rows of the table given whose primary key is not yet in
\* the relation, whatever the table; a second upsert of the table changes
\* nothing.
C30_UpsertInsertsAbsentRows ==
    [][last'.kind = "upsert" =>
         /\ ~last'.raised
         /\ relation' = relation \o AbsentRows(relation, last'.ta)
         /\ Unique(relation')
         /\ DuckDBRelStorage_upsert(relation', last'.ta).rel = relation']_vars

\* C30, amended: upsert never changes or duplicates an existing row; when the
\* rows of the table given whose primary key is not yet in the relation have
\* pairwise distinct keys, it inserts exactly these rows, and a second upsert
\* of the table changes nothing; otherwise it raises and the relation is left
\* as it was.
C30_UpsertInsertsAbsentDistinctRows ==
    [][last'.kind = "upsert" =>
         /\ RowsKept(relation, relation')
         /\ Unique(relation')
         /\ IF Unique(AbsentRows(relation, last'.ta))
            THEN /\ ~last'.raised
                 /\ relation' = relation \o AbsentRows(relation, last'.ta)
                 /\ DuckDBRelStorage_upsert(relation', last'.ta).rel = relation'
            ELSE /\ last'.raised
                 /\ relation' = relation]_vars

\* an upsert has returned on a table with a row whose key was in the relation
\* with another value, and with a row whose key was not
C30_Witness ==
    /\ last.kind = "upsert"
    /\ ~last.raised
    /\ Len(relation) = MaxRows
    /\ \E i \in 1..Len(last.ta) : last.ta[i] = relation[MaxRows]
    /\ \E i \in 1..Len(last.ta) :
         /\ last.ta[i].a = relation[1].a
         /\ last.ta[i].b # relation[1].b

\* C31: an insert that returns has appended exactly the rows of its table, so
\* that get_data after an insert into the empty relation returns the rows
\* inserted; delete(relation, index) returns, removes exactly the rows whose
\* primary key is in index and leaves the others in place; deleting every
\* key of the relation leaves it empty.
C31_InsertAndDeleteAreExact ==
    [][/\ last'.kind = "insert" =>
            IF last'.raised THEN relation' = relation
            ELSE relation' = relation \o last'.ta
       /\ last'.kind = "delete" =>
            /\ ~last'.raised
            /\ relation' = SelectSeq(relation, LAMBDA row : row.a \notin last'.index)
            /\ PrimaryKeys(relation) \subseteq last'.index => relation' = <<>>]_vars

\* C32: load_ref on the hid of a saved list or dict returns a composite ref
\* whose children are the results of load_ref on the hids of the children
\* with the same lazy flag; with lazy=False the atoms of a loaded list are in
\* memory.
C32_CompositeChildrenAreLoaded ==
    \A r \in CompositeRefs, lazy \in BOOLEAN :
      LET l == load_composite_ref(save_composite_ref(Storage, r), r.hid, lazy)
      IN l.ok =>
           /\ DOMAIN l.ref.obj = DOMAIN r.obj
           /\ \A k \in DOMAIN r.obj :
                /\ l.ref.obj[k] = load_ref(l.s, r.obj[k].hid, lazy).ref
                /\ (~lazy /\ r.tp = "list") => l.ref.obj[k].in_memory

\* closed under the creator calls of a ref and the input refs of a call
ClosedBackward(df, refs, cs) ==
    /\ \A h \in DOMAIN df : Range(df[h].output_hids) \cap refs # {} => h \in cs
    /\ \A h \in cs \cap DOMAIN df : Range(df[h].input_hids) \subseteq refs
\* closed under the consumer calls of a ref and the output refs of a call
ClosedForward(df, refs, cs) ==
    /\ \A h \in DOMAIN df : Range(df[h].input_hids) \cap refs # {} => h \in cs
    /\ \A h \in cs \cap DOMAIN df : Range(df[h].output_hids) \subseteq refs

\* C33: get_dependencies returns the least pair (refs, calls) that contains
\* the given hids and is closed under creator calls and input refs;
\* get_dependents the least pair closed under consumer calls and output refs.
C33_ClosuresAreLeast ==
    last.kind \in {"get_dependencies", "get_dependents"} =>
      LET df == calls.cache
          refs == last.result[1]
          cs == last.result[2]
          back == last.kind = "get_dependencies"
      IN /\ last.ref_hids \subseteq refs
         /\ last.call_hids \subseteq cs
         /\ IF back THEN ClosedBackward(df, refs, cs) ELSE ClosedForward(df, refs, cs)
         /\ \A P \in SUBSET GraphRefs, Q \in SUBSET GraphCalls :
              (/\ last.ref_hids \subseteq P
               /\ last.call_hids \subseteq Q
               /\ IF back THEN ClosedBackward(df, P, Q) ELSE ClosedForward(df, P, Q))
              => (refs \subseteq P /\ cs \subseteq Q)

\* get_dependents has followed a cycle of two calls from one of its refs
C33_Witness ==
    /\ last.kind = "get_dependents"
    /\ last.ref_hids = {<<"r1">>}
    /\ last.call_hids = {}
    /\ Cardinality(DOMAIN calls.cache) = 2
    /\ last.result[1] = {<<"r1">>, <<"r2">>}
    /\ last.result[2] = DOMAIN calls.cache
    /\ \A h \in DOMAIN calls.cache :
         calls.cache[h].input_hids["x"] # calls.cache[h].output_hids["output_0"]
    /\ \A h, k \in DOMAIN calls.cache :
         calls.cache[h].input_hids["x"] = calls.cache[k].input_hids["x"] => h = k

\* the refs plus the calls of a call table
TableSize(df) == Cardinality(DOMAIN df) + Cardinality(hids_in_calls(df))

\* C34 as stated: the loops of get_dependencies and get_dependents end on
\* every finite call table, cycles included, after at most as many iterations
\* as the table has refs plus calls.
C34_LoopsEndWithinTableSize ==
    last.kind \in {"get_dependencies", "get_dependents"} =>
      last.passes <= TableSize(calls.cache)

\* C34, amended: the loops end on every finite call table, cycles included,
\* after at most as many iterations as the table has refs plus calls, and
\* after exactly one iteration on a table without calls.
C34_LoopsEndWithinTableSizeOrOnce ==
    last.kind \in {"get_dependencies", "get_dependents"} =>
      IF TableSize(calls.cache) = 0 THEN last.passes = 1
      ELSE last.passes <= TableSize(calls.cache)

\* a loop has gone round a cycle of two calls and two refs, in as many
\* iterations as the table has refs plus calls
C34_Witness ==
    /\ last.kind = "get_dependencies"
    /\ last.ref_hids = {<<"r1">>}
    /\ last.call_hids = {}
    /\ Cardinality(DOMAIN calls.cache) = 2
    /\ last.result[1] = {<<"r1">>, <<"r2">>}
    /\ last.result[2] = DOMAIN calls.cache
    /\ last.passes = TableSize(calls.cache)

\* ------------------------------------------------------ list-typed outputs
\* two ops declared as f(x: int) -> List[int] that return the same list
ListOps == {"squares", "squares_too"}
\* h(n) of the list scenario: [i * i for i in range(n)]
f_list(op, n) == [i \in 1..n |-> (i - 1) * (i - 1)]
\* the ids wrap_atom(obj, None) can give a value that comes from outside
NewHids == {<<"u1">>, <<"u2">>}
ItemNames == <<"attr", "obj">>
get_list_item == "__get_list_item__"

IsComposite(ref) == "tp" \in DOMAIN ref

\* save_ref(ref) for any ref
save_any_ref(s, ref) ==
    IF IsComposite(ref) THEN save_composite_ref(s, ref) ELSE save_ref(s, ref)

\* load_ref(hid, lazy) for any shape: [ok, ref, s]
load_any_ref(s, hid, lazy) ==
    LET g == CachedDictStorage_get(s.shapes, hid)
    IN IF g.ok /\ IsComposite(g.value) THEN load_composite_ref(s, hid, lazy)
       ELSE load_ref(s, hid, lazy)

\* {k: load_ref(v, lazy=True) for k, v in hids.items()}: [ok, refs, s]
RECURSIVE load_any_refs(_, _, _)
\* the dict once the ref r of the first slot and the refs of the others are loaded
load_any_refs_join(r, rest, name) ==
    [ok |-> rest.ok,
     refs |-> IF rest.ok THEN Put(rest.refs, name, r.ref) ELSE EmptyDict,
     s |-> rest.s]
load_any_refs_after(r, hids, names) ==
    IF ~r.ok THEN [ok |-> FALSE, refs |-> EmptyDict, s |-> r.s]
    ELSE load_any_refs_join(r, load_any_refs(r.s, hids, Tail(names)), Head(names))
load_any_refs(s, hids, names) ==
    IF names = <<>> THEN [ok |-> TRUE, refs |-> EmptyDict, s |-> s]
    ELSE load_any_refs_after(load_any_ref(s, hids[Head(names)], TRUE), hids, names)

\* _get_call_from_data(call_data, lazy=True) of a call with the input slots
\* names: [ok, call, s]; o is the op, i the loaded inputs, u the loaded outputs
call_from_outputs(o, i, u, call_data) ==
    IF ~u.ok THEN [ok |-> FALSE, call |-> NoCall, s |-> u.s]
    ELSE [ok |-> TRUE,
          call |-> [op |-> o.value.name, cid |-> call_data.cid, hid |-> call_data.hid,
                    inputs |-> i.refs, outputs |-> u.refs],
          s |-> u.s]
call_from_inputs(o, i, call_data) ==
    IF ~i.ok THEN [ok |-> FALSE, call |-> NoCall, s |-> i.s]
    ELSE call_from_outputs(o, i, load_any_refs(i.s, call_data.output_hids, OutputNames),
                           call_data)
call_from_op(o, s, call_data, names) ==
    IF ~o.ok THEN [ok |-> FALSE, call |-> NoCall, s |-> s]
    ELSE call_from_inputs(o, load_any_refs([s EXCEPT !.ops = o.c],
                                           call_data.input_hids, names), call_data)
get_any_call_from_data(s, call_data, names) ==
    call_from_op(CachedDictStorage_get(s.ops, call_data.op_name), s, call_data, names)

\* lookup_call of an op with the input slots names: [err, found, call, s]
lookup_any_call(s, op, inputs, names, proto) ==
    LET call_hid == <<"call", op>> \o JoinIds(inputs, names, "hid")
        call_cid == <<"call", op>> \o JoinIds(inputs, names, "cid")
    IN IF InMemCallStorage_exists(s.calls.cache, call_hid)
       THEN lookup_by_hid(get_any_call_from_data(s, s.calls.cache[call_hid], names))
       ELSE IF exists_content(s.calls.cache, call_cid)
       THEN lookup_by_cid(get_any_call_from_data(s, proto, names), call_hid)
       ELSE [err |-> FALSE, found |-> FALSE, call |-> NoCall, s |-> s]

\* Ref.with_hid(hid)
with_hid(ref, hid) == [ref EXCEPT !.hid = hid]

\* the inputs destruct hands to __get_list_item__ for the element at index i
\* (from 0), wrapped by construct; u is the id given to the wrapped index
ItemInputs(ref, i, u) ==
    [obj |-> ref, attr |-> wrap_atom(i, u \o <<"attr", ToString(i)>>)]

\* the call of __get_list_item__ on inputs: its output is the element elt
\* with the hid derived from the call
item_call(inputs, elt, call_hid) ==
    [op |-> get_list_item,
     cid |-> <<"call", get_list_item>> \o JoinIds(inputs, ItemNames, "cid"),
     hid |-> call_hid,
     inputs |-> inputs,
     outputs |-> [output_0 |-> with_hid(elt, get_output_history_id(call_hid, "output_0"))]]

\* call_internal(__get_list_item__, ...) once lookup_call has returned l
item_call_after_lookup(l, inputs, elt) ==
    IF l.err THEN [raised |-> TRUE, call |-> NoCall, s |-> l.s]
    ELSE IF l.found THEN [raised |-> FALSE, call |-> l.call, s |-> l.s]
    ELSE [raised |-> FALSE,
          call |-> item_call(inputs, elt,
                             <<"call", get_list_item>> \o JoinIds(inputs, ItemNames, "hid")),
          s |-> l.s]

\* call_internal(__get_list_item__, {"obj": ref, "attr": i}): the call that
\* lookup_call found, or the call of the structural op: [raised, call, s]
call_get_list_item(s, ref, i, u, proto) ==
    item_call_after_lookup(
        lookup_any_call(s, get_list_item, ItemInputs(ref, i, u), ItemNames, proto),
        ItemInputs(ref, i, u), ref.obj[i + 1])

\* the loop of destruct(ref, ListType) over the elements from index i on:
\* [raised, new_elts, destr_calls, s]; r is what call_internal returned for
\* the element i
RECURSIVE destruct_loop(_, _, _, _, _, _, _)
destruct_step(r, ref, i, u, protos, new_elts, destr_calls) ==
    IF r.raised
    THEN [raised |-> TRUE, new_elts |-> new_elts, destr_calls |-> destr_calls, s |-> r.s]
    ELSE destruct_loop(r.s, ref, i + 1, u, protos,
                       Append(new_elts, r.call.outputs.output_0),
                       Append(destr_calls, r.call))
destruct_loop(s, ref, i, u, protos, new_elts, destr_calls) ==
    IF i >= Len(ref.obj)
    THEN [raised |-> FALSE, new_elts |-> new_elts, destr_calls |-> destr_calls, s |-> s]
    ELSE destruct_step(call_get_list_item(s, ref, i, u, protos[i + 1]),
                       ref, i, u, protos, new_elts, destr_calls)

\* res = ListRef(cid=ref.cid, hid=ref.hid, in_memory=True, obj=new_elts)
destruct_result(d, ref) ==
    [raised |-> d.raised,
     ref |-> [cid |-> ref.cid, hid |-> ref.hid, in_memory |-> TRUE,
              obj |-> d.new_elts, tp |-> "list"],
     calls |-> d.destr_calls, s |-> d.s]

\* destruct(ref, ListType) of a list of atoms: [raised, ref, calls, s]
destruct(s, ref, u, protos) ==
    destruct_result(destruct_loop(s, ref, 0, u, protos, <<>>, <<>>), ref)

\* construct(ListType, val) for an output: the ListRef __make_list__ builds
\* from the wrapped elements.  Its call is not looked for in a cache that has
\* no __make_list__ call, and the calls construct returns are dropped.
construct_list(val, u) ==
    CompositeRef("list", u \o <<"list">>,
                 [i \in 1..Len(val) |->
                     wrap_atom(val[i], u \o <<"elts", ToString(i - 1)>>)])

\* what lookup_call finds and what call_internal returns for it
ListFound(l) ==
    [raised |-> l.err, executed |-> FALSE, call |-> l.call, calls |-> <<>>, s |-> l.s]

\* the main call once its output was destructed as d
list_call_execute(d, op, inputs) ==
    [raised |-> d.raised, executed |-> TRUE,
     call |-> IF d.raised THEN NoCall
              ELSE [op |-> op, cid |-> get_call_content_id(op, inputs),
                    hid |-> get_call_history_id(op, inputs), inputs |-> inputs,
                    outputs |-> [output_0 |-> d.ref]],
     calls |-> IF d.raised THEN <<>> ELSE d.calls,
     s |-> d.s]

\* call_internal once lookup_call has returned l: the found call, or the
\* execution, the construct of the returned list with the output hid and its
\* destruct
list_call_after_lookup(l, op, n, inputs, u, protos) ==
    IF l.err \/ l.found THEN ListFound(l)
    ELSE list_call_execute(
            destruct(l.s,
                     with_hid(construct_list(f_list(op, n), u),
                              get_output_history_id(get_call_history_id(op, inputs),
                                                    "output_0")),
                     u, protos),
            op, inputs)

\* call_internal of an op f(x: int) -> List[int] on the raw argument n:
\* [raised, executed, call, calls, s]; calls are the auxiliary calls
call_list_internal(s, op, n, u, proto, protos) ==
    list_call_after_lookup(
        lookup_any_call(s, op, [x |-> wrap_atom(n, u \o <<"x">>)], InputNames, proto),
        op, n, [x |-> wrap_atom(n, u \o <<"x">>)], u, protos)

\* the input slots of a call in the order they are saved
SlotsOf(call) == IF call.op = get_list_item THEN ItemNames ELSE InputNames

RECURSIVE save_any_refs(_, _)
save_any_refs(s, refs) ==
    IF refs = <<>> THEN s ELSE save_any_refs(save_any_ref(s, Head(refs)), Tail(refs))

\* save_call of a call whose refs are atoms or lists
save_any_call(s, call) ==
    IF CachedCallStorage_exists(s.calls, call.hid) THEN s
    ELSE LET s1 == IF CachedDictStorage_exists(s.ops, call.op) THEN s
                   ELSE [s EXCEPT !.ops = CachedDictStorage_set(@, call.op, [name |-> call.op])]
             s2 == save_any_refs(s1, DictValues(call.inputs, SlotsOf(call))
                                        \o DictValues(call.outputs, OutputNames))
         IN [s2 EXCEPT !.calls = CachedCallStorage_save(@, call)]

RECURSIVE save_any_calls(_, _)
save_any_calls(s, cs) ==
    IF cs = <<>> THEN s ELSE save_any_calls(save_any_call(s, Head(cs)), Tail(cs))

\* Storage.call of a list op: the main call and the auxiliary calls are
\* saved when save_calls is set
list_call_save(r, save_calls) ==
    IF r.raised \/ ~save_calls THEN r
    ELSE [r EXCEPT !.s = save_any_calls(r.s, <<r.call>> \o r.calls)]
Storage_call_list(s, op, n, save_calls, u, proto, protos) ==
    list_call_save(call_list_internal(s, op, n, u, proto, protos), save_calls)

\* Storage.preload_shapes()
preload_shapes(s) ==
    [s EXCEPT !.shapes.cache = SQLiteDictStorage_load_all(s.shapes.persistent)]

\* the rows get_data_content may hand to the lookup of a call
PrototypesOf(s, op, inputs, names) ==
    LET cid == <<"call", op>> \o JoinIds(inputs, names, "cid")
    IN IF exists_content(s.calls.cache, cid)
       THEN get_data_content(s.calls.cache, cid)
       ELSE {CallData(NoCall)}

\* one row group for each element of the list the op returns
ItemPrototypes(s, op, n, u) ==
    LET ref == construct_list(f_list(op, n), u)
    IN {p \in [1..n -> Range(s.calls.cache) \cup {CallData(NoCall)}] :
          \A i \in 1..n :
             p[i] \in PrototypesOf(s, get_list_item, ItemInputs(ref, i - 1, u), ItemNames)}

MaxList == 3
MaxListCalls == 1

\* the calls of list ops in the call cache
ListCalls == {h \in DOMAIN calls.cache : calls.cache[h].op_name \in ListOps}

ListInit == InitWith(NoDeps)

ListReturns(r, n) ==
    /\ Becomes(r.s)
    /\ last' = [kind |-> "call_list", raised |-> r.raised,
                executed |-> r.executed, n |-> n,
                call |-> r.call, calls |-> r.calls]

ListCall(op, n, save_calls, u) ==
    /\ save_calls => Cardinality(ListCalls) < MaxListCalls
    /\ \E proto \in PrototypesOf(Storage, op, [x |-> wrap_atom(n, u \o <<"x">>)], InputNames),
          protos \in ItemPrototypes(Storage, op, n, u) :
         ListReturns(Storage_call_list(Storage, op, n, save_calls, u, proto, protos), n)
    /\ UNCHANGED <<db_in_memory, relation, versioned, sources, cached_versioner,
                   current_context, scopes, mem_saved>>

PreloadShapes ==
    /\ Becomes(preload_shapes(Storage))
    /\ last' = Op("preload_shapes", FALSE)
    /\ UNCHANGED <<db_in_memory, relation, versioned, sources, cached_versioner,
                   current_context, scopes, mem_saved>>

ListNext ==
    \/ \E op \in ListOps, n \in 0..MaxList, save_calls \in BOOLEAN, u \in NewHids :
         ListCall(op, n, save_calls, u)
    \/ PreloadShapes
    \/ Commit("none")

ListSpec == ListInit /\ [][ListNext]_vars

ProbeCids == {get_content_hash(v) : v \in 1..MaxVal}
ProbeRefHids == {<<"a">>, <<"b">>, <<"zz">>}
ProbeOps == OpNames \cup MutatingOps
ProbeCallHids ==
    {get_call_history_id(op, [x |-> BaseRef(hid, TRUE)]) :
        op \in OpNames, hid \in {<<"a">>, <<"b">>}}
Missing(c, key) == key \notin DOMAIN c.cache /\ key \notin DOMAIN c.persistent
MissingCalls == {hid \in ProbeCallHids : hid \notin KnownCalls}

\* a get of a missing key raises and leaves the storage as it was
GetRaises(c, key) ==
    Missing(c, key) =>
        /\ ~CachedDictStorage_get(c, key).ok
        /\ CachedDictStorage_get(c, key).c = c

\* C36: the lookup of a key, a ref hid or a call hid that is neither in the
\* cache nor in the persistent table (get of a dict storage, load_ref,
\* mget_call and get_call) raises, returns nothing, and leaves the caches,
\* the dirty sets and the persistent tables as they were.
C36_MissingLookupsRaise ==
    /\ \A key \in ProbeCids : GetRaises(atoms, key)
    /\ \A key \in ProbeRefHids : GetRaises(shapes, key)
    /\ \A key \in ProbeOps : GetRaises(ops, key)
    /\ \A hid \in ProbeRefHids, lazy \in BOOLEAN :
         Missing(shapes, hid) =>
            /\ ~load_ref(Storage, hid, lazy).ok
            /\ load_ref(Storage, hid, lazy).s = Storage
    /\ \A hid \in MissingCalls, lazy \in BOOLEAN :
         /\ ~mget_call(Storage, <<hid>>, lazy).ok
         /\ mget_call(Storage, <<hid>>, lazy).s = Storage
         /\ \A known \in KnownCalls :
              /\ ~mget_call(Storage, <<known, hid>>, lazy).ok
              /\ mget_call(Storage, <<known, hid>>, lazy).s = Storage
              /\ ~mget_call(Storage, <<hid, known>>, lazy).ok
              /\ mget_call(Storage, <<hid, known>>, lazy).s = Storage

\* one call is cached and dirty with its refs, another call and the ref "zz"
\* are nowhere
C36_Witness ==
    /\ calls.dirty_hids \cap DOMAIN calls.cache # {}
    /\ shapes.dirty_keys # {}
    /\ atoms.dirty_keys # {}
    /\ MissingCalls # {}
    /\ Missing(shapes, <<"zz">>)

\* C37: Storage.commit after drop_calls does not raise, and writes no call
\* that is neither in the call cache nor in the table to the table; in
\* particular after a call was saved and dropped before any commit.
C37_CommitSucceedsAfterDrop ==
    last.kind = "drop_calls" =>
        \A written \in WrittenSets(Storage, "none") :
            LET r == Storage_commit(Storage, db_in_memory, "none", written)
            IN /\ ~r.raised
               /\ \A hid \in ProbeCallHids :
                    hid \notin KnownCalls => hid \notin DOMAIN r.s.calls.persistent

C39_NoConsumerOfDroppedOutputs ==
    \A hid \in KnownCalls :
      LET s1 == drop_calls(Storage, {hid}, TRUE)
          dropped == KnownCalls \ ((DOMAIN s1.calls.cache) \cup (DOMAIN s1.calls.persistent))
          outs == get_output_hids(calls.cache, dropped)
                     \cup get_output_hids(calls.persistent, dropped)
      IN /\ hid \in dropped
         /\ get_consumer_hids(s1.calls.cache, outs) = {}
         /\ get_consumer_hids(s1.calls.persistent, outs) = {}

\* every dirty entry is in its cache: a commit has what it is to write
DirtyIsCached(s) ==
    /\ DictGood(s.atoms) = s.atoms.dirty_keys
    /\ DictGood(s.shapes) = s.shapes.dirty_keys
    /\ DictGood(s.ops) = s.ops.dirty_keys
    /\ CallGood(s.calls) = s.calls.dirty_hids

\* the dirty entries of the cache c are in the table t with their values
DictPersisted(c, t) ==
    \A k \in c.dirty_keys : k \in DOMAIN t /\ t[k] = serialize(c.cache[k])

\* C40: when every dirty entry of the atoms, shapes, ops and calls caches is
\* in its cache, a commit that follows preload(lazy) or preload_shapes() does
\* not raise and leaves every such entry in its table with the written value.
C40_PreloadKeepsDirtyWrites ==
    DirtyIsCached(Storage) =>
        \A s1 \in {preload(Storage, TRUE), preload(Storage, FALSE), preload_shapes(Storage)} :
          \A written \in WrittenSets(s1, "none") :
            LET r == Storage_commit(s1, db_in_memory, "none", written)
            IN /\ ~r.raised
               /\ DictPersisted(atoms, r.s.atoms.persistent)
               /\ DictPersisted(shapes, r.s.shapes.persistent)
               /\ DictPersisted(ops, r.s.ops.persistent)
               /\ \A h \in calls.dirty_hids :
                    /\ h \in DOMAIN r.s.calls.persistent
                    /\ r.s.calls.persistent[h] = calls.cache[h]
====
